---- MODULE Spec2Model ----
(***************************************************************************)
(* Model of the Basecamp node's request client, its two pagination walks   *)
(* and its option builders (nodes/Basecamp/GenericFunctions.ts), and of    *)
(* the item loop of execute (nodes/Basecamp/Basecamp.node.ts).             *)
(*                                                                         *)
(* Strings are sequences of tokens: a digit is one token, a punctuation    *)
(* mark the patterns of the code look at is one token, and a word that no  *)
(* pattern looks into is one token.  A template literal is concatenation.  *)
(* A JavaScript object is a function from its keys to its values: a key    *)
(* the object lacks is a key outside the DOMAIN.  A JSON value carries a   *)
(* `type` tag ("array" with `items`, or "object" with its own keys).       *)
(***************************************************************************)
EXTENDS Integers, Sequences, FiniteSets, TLC

VARIABLES
    pc,        \* "idle" | "awaiting" | "returned" | "thrown"
    op,        \* the function that was called
    args,      \* the arguments of the call (a key that is absent was not passed)
    ctx,       \* the host context: the node parameters getNodeParameter reads
    server,    \* the remote collection a listing endpoint pages: the length of each page
    stage,     \* which await of the function the call is suspended at
    pending,   \* the request handed to the host and not yet answered
    sent,      \* every request handed to the host during the call, in order
    received,  \* every response the host delivered during the call, in order
    rejected,  \* every error the host rejected a request of the call with, in order
    out,       \* the accumulator of the call (out / returnData)
    cursor,    \* the page cursor of the call (nextUrl, query.page or page)
    found,     \* what a builder resolved from the project (dock entry, ids); what execute caught
    result     \* what the call returned or threw

vars == <<pc, op, args, ctx, server, stage, pending, sent, received, rejected, out, cursor, found, result>>

----------------------------------------------------------------------------
(* Bounds of the model *)

\* the most pages a remote collection has
MaxPages == 3

\* the most requests one Link-header walk may issue before the model stops answering
MaxLinkPages == 3

----------------------------------------------------------------------------
(* Strings *)

Digits == <<"0", "1", "2", "3", "4", "5", "6", "7", "8", "9">>

IsDigit(t) == \E d \in 1..10 : Digits[d] = t

RECURSIVE NumberToString(_)
\* Number.prototype.toString of a non-negative integer
NumberToString(n) ==
    IF n < 10 THEN <<Digits[n + 1]>>
    ELSE NumberToString(n \div 10) \o <<Digits[(n % 10) + 1]>>

StartsWith(s, p) == Len(s) >= Len(p) /\ SubSeq(s, 1, Len(p)) = p

\* the empty object {}
EmptyObject == [k \in {} |-> 0]

Keys(o) == DOMAIN o

\* delete o[key]
DeleteKey(o, key) == [k \in (DOMAIN o) \ {key} |-> o[k]]

\* a slip: a key the object already holds keeps its value
SetKeyIfMissing(o, key, value) ==
    [k \in (DOMAIN o) \cup {key} |-> IF k \in DOMAIN o THEN o[k] ELSE value]

\* a slip: the object is replaced by one that holds the key alone
SetKeyAlone(o, key, value) == [k \in {key} |-> value]

\* o[key] = value
SetKey(o, key, value) == [k \in (DOMAIN o) \cup {key} |-> IF k = key THEN value ELSE o[k]]

\* JavaScript truthiness of a string-valued property that may be missing
Truthy(o, key) == key \in DOMAIN o /\ o[key] # <<>>

IsArray(v) == v.type = "array"

JArray(items) == [type |-> "array", items |-> items]

----------------------------------------------------------------------------
(* basecampApiRequest *)

ApiOrigin == <<"https://3.basecampapi.com", "/">>

\* a slip: the node parameter is read whatever the caller passed
AccountOfParameter(a, c) == c.accountId

\* accountId || this.getNodeParameter('accountId', 0)
AccountOf(a, c) == IF Truthy(a, "accountId") THEN a.accountId ELSE c.accountId

\* `https://3.basecampapi.com/${account}${endpoint}`
ApiUrl(account, endpoint) == ApiOrigin \o account \o endpoint

JsonHeaders == [ContentType |-> "application/json", UserAgent |-> "n8n (https://n8n.io)"]

\* the third argument of requestWithAuthentication
RefreshOnBody == [oauth2 |-> [includeCredentialsOnRefreshOnBody |-> TRUE]]

\* a slip: the empty body is left in the options
KeepEmptyBody(options, body) == options

\* Object.keys(body).length === 0  =>  delete options.body
OmitEmptyBody(options, body) ==
    IF Cardinality(Keys(body)) = 0 THEN DeleteKey(options, "body") ELSE options

\* Object.keys(query).length === 0  =>  delete options.qs
OmitEmptyQuery(options, query) ==
    IF Cardinality(Keys(query)) = 0 THEN DeleteKey(options, "qs") ELSE options

\* the options object basecampApiRequest hands to the host
ApiRequestOptions(method, endpoint, body, query, account) ==
    OmitEmptyQuery(
        OmitEmptyBody(
            [headers |-> JsonHeaders,
             method  |-> method,
             body    |-> body,
             qs      |-> query,
             url     |-> ApiUrl(account, endpoint),
             json    |-> TRUE],
            body),
        query)

\* one call of requestWithAuthentication: the credential type, the options, the extra argument
HostCall(options, extra) ==
    [credentialsType |-> "basecampOAuth2Api", options |-> options, extra |-> extra]

\* a slip: the host's error is thrown again as it is
RethrowError(error) == error

\* catch (error) { throw new NodeApiError(this.getNode(), error) }
TranslateError(error) == [type |-> "NodeApiError", node |-> "Basecamp", cause |-> error]

\* the request basecampApiRequest issues for its arguments
ApiRequestCall(method, endpoint, body, query, a, c) ==
    HostCall(ApiRequestOptions(method, endpoint, body, query, AccountOf(a, c)), RefreshOnBody)

----------------------------------------------------------------------------
(* The host: inputs of the model *)

\* the ways the host's authenticated call rejects (transport error, non-2xx status)
HostErrors ==
    { [type |-> "HostError", message |-> "ETIMEDOUT"],
      [type |-> "HostError", message |-> "404 Not Found"] }

AccountIds == { <<"9", "9">> }

\* the accountId argument: a non-empty id, the empty string, or not passed at all
AccountArgs ==
    { [accountId |-> a] : a \in AccountIds \cup {<<>>} } \cup { EmptyObject }

Methods == {"GET", "POST"}

Bodies == { EmptyObject, [name |-> <<"n">>] }

\* the caller's query: none, a filter, and one that already names a page
Queries == { EmptyObject, [status |-> <<"archived">>], [page |-> 7] }

ProjectIds == { <<"1", "2", "3">>, <<"5", "5">> }

Endpoints == { <<"/", "projects.json">> }

NoRequest == EmptyObject

NoResult == [kind |-> "none"]

Returned(value) == [kind |-> "returned", value |-> value]

Thrown(error) == [kind |-> "thrown", error |-> error]

Init ==
    /\ pc = "idle"
    /\ op = "none"
    /\ args = EmptyObject
    /\ ctx \in [accountId : {<<"4", "2">>}, projectId : ProjectIds, messageBoardId : {<<"8">>},
                questionnaireId : {<<"6">>}, vaultId : {<<"3">>}, cardTableId : {<<"7">>}]
    /\ server = <<>>
    /\ stage = "none"
    /\ pending = NoRequest
    /\ sent = <<>>
    /\ received = <<>>
    /\ rejected = <<>>
    /\ out = <<>>
    /\ cursor = EmptyObject
    /\ found = EmptyObject
    /\ result = NoResult

\* hand a request to the host and suspend
Issue(req) ==
    /\ pending' = req
    /\ sent' = Append(sent, req)
    /\ pc' = "awaiting"

\* leave the call with a value
Return(value) ==
    /\ pc' = "returned"
    /\ pending' = NoRequest
    /\ result' = Returned(value)

\* a slip: after a failure the request stays with the host, to be answered again
LeavePending(cause, error) ==
    /\ pc' = "awaiting"
    /\ pending' = pending
    /\ rejected' = Append(rejected, cause)
    /\ result' = result

\* a slip: a failed request ends the call with what was accumulated so far
ReturnAccumulated(cause, error) ==
    /\ pc' = "returned"
    /\ pending' = NoRequest
    /\ rejected' = Append(rejected, cause)
    /\ result' = Returned(out)

\* the host rejects the pending request with `cause`, and the call ends throwing `error`
Throw(cause, error) ==
    /\ pc' = "thrown"
    /\ pending' = NoRequest
    /\ rejected' = Append(rejected, cause)
    /\ result' = Thrown(error)

\* any JSON value a single request may resolve to
SingleResponses ==
    { [type |-> "object", id |-> 7], JArray(<<>>), JArray(<<[type |-> "object", id |-> 7]>>) }

\* basecampApiRequest is called: lines 24-57 up to the await
ApiRequestCalled ==
    /\ pc = "idle"
    /\ \E m \in Methods, e \in Endpoints, b \in Bodies, q \in Queries, a \in AccountArgs :
          /\ op' = "basecampApiRequest"
          /\ args' = [method |-> m, endpoint |-> e, body |-> b, query |-> q] @@ a
          /\ Issue(ApiRequestCall(m, e, b, q, a, ctx))
    /\ stage' = "request"
    /\ UNCHANGED <<rejected, ctx, server, received, out, cursor, found, result>>

\* the host resolves the await of basecampApiRequest: the value is returned as it is
ApiRequestResolved ==
    /\ pc = "awaiting" /\ op = "basecampApiRequest"
    /\ \E r \in SingleResponses :
          /\ received' = Append(received, r)
          /\ Return(r)
    /\ UNCHANGED <<rejected, op, args, ctx, server, stage, sent, out, cursor, found>>

\* the host rejects the await of basecampApiRequest: lines 58-60
ApiRequestRejected ==
    /\ pc = "awaiting" /\ op = "basecampApiRequest"
    /\ \E e \in HostErrors : Throw(e, TranslateError(e))
    /\ UNCHANGED <<op, args, ctx, server, stage, sent, received, out, cursor, found>>

----------------------------------------------------------------------------
(* basecampFetchAllPages: the Link-header walk *)

RelNext == "rel=\"next\""

RelPrev == "rel=\"prev\""

\* res.headers && (res.headers.link || res.headers.Link); a falsy value is the empty string
LinkHeader(res) ==
    IF "headers" \notin DOMAIN res THEN <<>>
    ELSE IF Truthy(res.headers, "link") THEN res.headers.link
    ELSE IF Truthy(res.headers, "Link") THEN res.headers.Link
    ELSE <<>>

\* whether /<([^>]+)>;\s*rel="next"/ matches s from position i
NextMatchesAt(s, i) ==
    /\ s[i] = "<"
    /\ \E j \in (i + 2)..(Len(s) - 2) :
          /\ s[j] = ">"
          /\ \A k \in (i + 1)..(j - 1) : s[k] # ">"
          /\ s[j + 1] = ";"
          /\ \E n \in (j + 2)..Len(s) :
                /\ s[n] = RelNext
                /\ \A w \in (j + 2)..(n - 1) : s[w] = " "

\* the first capture group of the match at position i
NextCapture(s, i) ==
    LET j == CHOOSE j \in (i + 2)..Len(s) :
                 s[j] = ">" /\ \A k \in (i + 1)..(j - 1) : s[k] # ">"
    IN  SubSeq(s, i + 1, j - 1)

\* m = link && /<([^>]+)>;\s*rel="next"/.exec(link); m && m[1] ? m[1] : undefined
\* (undefined is the empty string: `while (nextUrl)` treats both alike)
NextUrlOf(link) ==
    LET hits == { i \in 1..Len(link) : NextMatchesAt(link, i) }
    IN  IF hits = {} THEN <<>>
        ELSE NextCapture(link, CHOOSE i \in hits : \A h \in hits : i <= h)

\* the request of one turn of the loop, lines 77-97
LinkPageCall(nextUrl) ==
    HostCall([headers |-> JsonHeaders,
              method  |-> "GET",
              url     |-> nextUrl,
              json    |-> TRUE,
              resolveWithFullResponse |-> TRUE],
             RefreshOnBody)

\* a slip: the page replaces the accumulator instead of being appended to it
PushAllOverwrites(acc, body) == IF IsArray(body) THEN body.items ELSE acc

\* a slip: a body that is no array is pushed as if it were an item
PushAllUnchecked(acc, body) == IF IsArray(body) THEN acc \o body.items ELSE Append(acc, body)

\* if (Array.isArray(body)) out.push(...body)
PushAll(acc, body) == IF IsArray(body) THEN acc \o body.items ELSE acc

\* the JSON objects of the n-th response of a call
Item(n, i) == [type |-> "object", id |-> n * 100 + i, title |-> <<"t">> \o NumberToString(i)]

Items(n, len) == [i \in 1..len |-> Item(n, i)]

NotAnArray == [type |-> "object", error |-> <<"x">>]

LinkNext(t) == <<"<">> \o t \o <<">", ";", " ", RelNext>>

LinkNextTight(t) == <<"<">> \o t \o <<">", ";", RelNext>>

LinkPrev(t) == <<"<">> \o t \o <<">", ";", " ", RelPrev>>

LinkPrevNext(p, t) == LinkPrev(p) \o <<",", " ">> \o LinkNext(t)

\* the URL of page p of an endpoint under an account, as the server writes it
PageUrl(account, endpoint, p) ==
    ApiUrl(account, endpoint) \o <<"?", "page=">> \o NumberToString(p)

OtherHeaders == [etag |-> <<"W">>]

\* what the host may deliver as the n-th response of a Link-header walk
LinkResponses(n, account, endpoint) ==
    LET next == PageUrl(account, endpoint, n + 1)
        prev == PageUrl(account, endpoint, n)
        away == PageUrl(<<"1">>, endpoint, n + 1)
        some == JArray(Items(n, 2))
    IN  { [body |-> b, headers |-> h] :
            b \in {some, JArray(<<>>), NotAnArray},
            h \in {OtherHeaders, OtherHeaders @@ [link |-> LinkNext(next)]} }
        \cup
        { [body |-> some, headers |-> OtherHeaders @@ h] :
            h \in { [Link |-> LinkNext(next)],
                    [LINK |-> LinkNext(next)],
                    [link |-> LinkPrev(prev)],
                    [link |-> LinkPrevNext(prev, next)],
                    [link |-> LinkNextTight(next)],
                    [link |-> <<>>],
                    [link |-> LinkNext(away)] } }
        \cup
        { [body |-> NotAnArray, headers |-> OtherHeaders @@ [LINK |-> LinkNext(next)]] }
        \cup
        { [body |-> some] }

\* basecampFetchAllPages is called: lines 72-97 up to the first await
FetchAllPagesCalled ==
    /\ pc = "idle"
    /\ \E e \in Endpoints, a \in AccountArgs :
          LET nextUrl == ApiUrl(AccountOf(a, ctx), e)
          IN  /\ op' = "basecampFetchAllPages"
              /\ args' = [endpoint |-> e] @@ a
              /\ cursor' = [nextUrl |-> nextUrl]
              /\ Issue(LinkPageCall(nextUrl))
    /\ stage' = "page"
    /\ out' = <<>>
    /\ UNCHANGED <<rejected, ctx, server, received, found, result>>

\* a page of the walk arrives: lines 99-110, and lines 76-97 of the next turn
FetchAllPagesResolved ==
    /\ pc = "awaiting" /\ op = "basecampFetchAllPages"
    /\ \E res \in LinkResponses(Len(received) + 1, AccountOf(args, ctx), args.endpoint) :
          LET acc     == PushAll(out, res.body)
              nextUrl == NextUrlOf(LinkHeader(res))
          IN  /\ received' = Append(received, res)
              /\ out' = acc
              /\ cursor' = [nextUrl |-> nextUrl]
              /\ IF nextUrl # <<>>
                 THEN /\ Len(sent) < MaxLinkPages
                      /\ Issue(LinkPageCall(nextUrl))
                      /\ UNCHANGED result
                 ELSE /\ Return(acc)
                      /\ UNCHANGED sent
    /\ UNCHANGED <<rejected, op, args, ctx, server, stage, found>>

\* a page of the walk fails: nothing catches the host's error
FetchAllPagesRejected ==
    /\ pc = "awaiting" /\ op = "basecampFetchAllPages"
    /\ \E e \in HostErrors : Throw(e, e)
    /\ UNCHANGED <<op, args, ctx, server, stage, sent, received, out, cursor, found>>

----------------------------------------------------------------------------
(* basecampApiRequestAllItems: the count-heuristic walk *)

PageSize == 50

\* a slip: <= for <, so that a full page ends the walk
LastPageAtFifty(responseData) == ~IsArray(responseData) \/ Len(responseData.items) <= PageSize

\* a slip: every page that has not exactly 50 items ends the walk
LastPageUnlessFifty(responseData) ==
    ~IsArray(responseData) \/ Len(responseData.items) # PageSize

\* a slip: only an empty page ends the walk
LastPageWhenEmpty(responseData) == ~IsArray(responseData) \/ Len(responseData.items) = 0

\* !Array.isArray(responseData) || responseData.length < 50
LastPage(responseData) == ~IsArray(responseData) \/ Len(responseData.items) < PageSize

\* the lengths a non-empty page of a remote collection may have
PageLengths == {3, PageSize - 1, PageSize, PageSize + 1}

\* the remote collections: up to MaxPages pages, each of one of the lengths
Collections == UNION { [1..n -> PageLengths] : n \in 0..MaxPages }

\* the page number a request asks for
PageAsked(req) ==
    IF "qs" \in DOMAIN req.options /\ "page" \in DOMAIN req.options.qs
    THEN req.options.qs.page
    ELSE 1

\* the page of the collection a request asks for; past the last page the server sends []
PageOf(collection, req) ==
    LET p == PageAsked(req)
    IN  IF p \in 1..Len(collection) THEN JArray(Items(p, collection[p])) ELSE JArray(<<>>)

\* what basecampApiRequest may resolve to for a page request: the page, or a body that is no array
PageResponses(collection, req) == { PageOf(collection, req), NotAnArray }

\* basecampApiRequestAllItems is called: lines 124-131 up to the first await
AllItemsCalledWith(m, e, b, q, a, c) ==
    /\ pc = "idle"
    /\ LET query == SetKey(q, "page", 1)
       IN  /\ op' = "basecampApiRequestAllItems"
           /\ server' = c
           /\ args' = [method |-> m, endpoint |-> e, body |-> b, query |-> q] @@ a
           /\ cursor' = [query |-> query]
           /\ Issue(ApiRequestCall(m, e, b, query, a, ctx))
    /\ stage' = "page"
    /\ out' = <<>>
    /\ UNCHANGED <<rejected, ctx, received, found, result>>

\* the walk is called with any arguments, against any collection
AllItemsCalled ==
    /\ pc = "idle"
    /\ \E m \in Methods, e \in Endpoints, b \in Bodies, q \in Queries, a \in AccountArgs,
          c \in Collections :
           AllItemsCalledWith(m, e, b, q, a, c)

\* a page of the walk arrives: lines 133-147, and line 131 of the next turn
AllItemsResolved ==
    /\ pc = "awaiting" /\ op = "basecampApiRequestAllItems"
    /\ \E responseData \in PageResponses(server, pending) :
          LET returnData == PushAll(out, responseData)
          IN  /\ received' = Append(received, responseData)
              /\ out' = returnData
              /\ IF LastPage(responseData)
                 THEN /\ Return(returnData)
                      /\ UNCHANGED <<sent, cursor>>
                 ELSE LET query == SetKey(cursor.query, "page", cursor.query.page + 1)
                      IN  /\ cursor' = [query |-> query]
                          /\ Issue(ApiRequestCall(args.method, args.endpoint, args.body,
                                                  query, args, ctx))
                          /\ UNCHANGED result
    /\ UNCHANGED <<rejected, op, args, ctx, server, stage, found>>

\* a page of the walk fails inside basecampApiRequest: the NodeApiError passes through
AllItemsRejected ==
    /\ pc = "awaiting" /\ op = "basecampApiRequestAllItems"
    /\ \E e \in HostErrors : Throw(e, TranslateError(e))
    /\ UNCHANGED <<op, args, ctx, server, stage, sent, received, out, cursor, found>>

----------------------------------------------------------------------------
(* The project dock and the option builders that read it *)

\* `/projects/${projectId}.json`
ProjectEndpoint(projectId) == <<"/", "projects", "/">> \o projectId \o <<".json">>

\* the request every dock builder starts with: basecampApiRequest('GET', project, {}, {}, accountId)
ProjectCall(c) ==
    ApiRequestCall("GET", ProjectEndpoint(c.projectId), EmptyObject, EmptyObject,
                   [accountId |-> c.accountId], c)

\* a slip: the first dock entry is taken whatever its name
DockFindFirst(project, name) ==
    IF "dock" \notin DOMAIN project \/ project.dock = <<>> THEN <<>> ELSE <<project.dock[1]>>

\* project.dock?.find((d) => d.name === name): the entry in a sequence of at most one
DockFind(project, name) ==
    IF "dock" \notin DOMAIN project THEN <<>>
    ELSE LET hits == { i \in 1..Len(project.dock) : project.dock[i].name = name }
         IN  IF hits = {} THEN <<>>
             ELSE <<project.dock[CHOOSE i \in hits : \A h \in hits : i <= h]>>

\* a slip: ?? for ||, so that an empty title is kept
TitleUnlessMissing(entry, fallback) == IF "title" \in DOMAIN entry THEN entry.title ELSE fallback

\* entry.title || fallback
TitleOr(entry, fallback) == IF Truthy(entry, "title") THEN entry.title ELSE fallback

\* { name: entry.title || fallback, value: entry.id.toString() }
EntryOption(entry, fallback) ==
    [name |-> TitleOr(entry, fallback), value |-> NumberToString(entry.id)]

\* { name: item.title, value: item.id.toString() }
ItemOption(item) == [name |-> item.title, value |-> NumberToString(item.id)]

\* a slip: the options of a page are put before the accumulator
UnshiftOptions(acc, page) == [i \in 1..Len(page.items) |-> ItemOption(page.items[i])] \o acc

\* for (const item of page) returnData.push({ name, value })
PushOptions(acc, page) == acc \o [i \in 1..Len(page.items) |-> ItemOption(page.items[i])]

\* !Array.isArray(page) || page.length === 0
NoMore(page) == ~IsArray(page) \/ Len(page.items) = 0

\* a slip: a page of exactly 50 ends the loop
HasMoreOverFifty(page) == Len(page.items) > PageSize

\* hasMore = page.length >= 50
HasMore(page) == Len(page.items) >= PageSize

DockNames ==
    {"todoset", "message_board", "chat", "vault", "schedule", "questionnaire", "kanban_board"}

\* the id the server gives the dock entry of a tool
DockId(name) == IF name = "todoset" THEN 77 ELSE 55

\* the URLs a dock entry may carry: of bucket 55, well formed or not
DockUrls(name) ==
    LET base == ApiOrigin \o <<"9", "9", "/", "buckets", "/">>
        tool == IF name = "todoset" THEN "todosets" ELSE name
    IN  { base \o <<"5", "5", "/", tool, "/">> \o NumberToString(DockId(name)) \o <<".json">> }
        \cup
        IF name = "todoset"
        THEN { base \o <<"5", "5", "/", "todolists", "/", "7", "7", ".json">>,
               base \o <<"x", "/", "todosets", "/", "7", "7", ".json">>,
               base \o <<"5", "5", "/", "todosets", "/", ".json">> }
        ELSE {}

\* the dock entries the server may send for a tool: with, without and with an empty title or url
DockEntries(name) ==
    LET core == [name |-> name, id |-> DockId(name)]
    IN  { core @@ [title |-> t, url |-> u] : t \in {<<"Docs">>, <<>>}, u \in DockUrls(name) }
        \cup { core @@ [url |-> u] : u \in DockUrls(name) }
        \cup { core @@ [title |-> <<"Docs">>] }

\* the projects the server may answer the project request with, seen by a builder for `name`
Projects(name) ==
    LET core  == [type |-> "object", id |-> 123, name |-> <<"Project">>]
        other == CHOOSE n \in DockNames : n # name /\ n # "todoset"
        extra == [name |-> other, id |-> 31, title |-> <<"Other">>, url |-> <<"u">>]
    IN  { core, core @@ [dock |-> <<>>], core @@ [dock |-> <<extra>>] }
        \cup { core @@ [dock |-> <<extra, e>>] : e \in DockEntries(name) }

\* a builder that reads the dock is called: the project request, up to the await
DockBuilderCalled(builder, collections) ==
    /\ pc = "idle"
    /\ op' = builder
    /\ args' = EmptyObject
    /\ server' \in collections
    /\ stage' = "project"
    /\ Issue(ProjectCall(ctx))
    /\ out' = <<>>
    /\ UNCHANGED <<rejected, ctx, received, cursor, found, result>>

\* the project arrives at a builder of one entry: the entry, if the dock has it
SingleEntryResolved(builder, name, fallback) ==
    /\ pc = "awaiting" /\ op = builder /\ stage = "project"
    /\ \E project \in Projects(name) :
          LET entry == DockFind(project, name)
          IN  /\ received' = Append(received, project)
              /\ found' = [entry |-> entry]
              /\ IF entry = <<>>
                 THEN Return(<<>>)
                 ELSE Return(<<EntryOption(entry[1], fallback)>>)
    /\ UNCHANGED <<rejected, op, args, ctx, server, stage, sent, out, cursor>>

getMessageBoardsCalled == DockBuilderCalled("getMessageBoards", {<<>>})

getMessageBoardsResolved ==
    SingleEntryResolved("getMessageBoards", "message_board", <<"Message Board">>)

getCampfiresCalled == DockBuilderCalled("getCampfires", {<<>>})

getCampfiresResolved == SingleEntryResolved("getCampfires", "chat", <<"Campfire">>)

getSchedulesCalled == DockBuilderCalled("getSchedules", {<<>>})

getSchedulesResolved == SingleEntryResolved("getSchedules", "schedule", <<"Schedule">>)

getQuestionnairesCalled == DockBuilderCalled("getQuestionnaires", {<<>>})

getQuestionnairesResolved ==
    SingleEntryResolved("getQuestionnaires", "questionnaire", <<"Automatic Check-ins">>)

getCardTablesCalled == DockBuilderCalled("getCardTables", {<<>>})

getCardTablesResolved == SingleEntryResolved("getCardTables", "kanban_board", <<"Card Table">>)

getTodosetsCalled == DockBuilderCalled("getTodosets", {<<>>})

getTodosetsResolved == SingleEntryResolved("getTodosets", "todoset", <<"To-dos">>)

\* the builders whose every request goes through basecampApiRequest
ApiBuilders ==
    {"getMessageBoards", "getCampfires", "getSchedules", "getQuestionnaires",
     "getCardTables", "getTodosets", "getTodolists", "getVaults",
     "getQuestions", "getDocuments", "getUploads", "getWebhooks", "getTemplates",
     "getCardTableColumns"}

\* a request of a builder fails inside basecampApiRequest: the NodeApiError passes through
BuilderRejected ==
    /\ pc = "awaiting" /\ op \in ApiBuilders
    /\ \E e \in HostErrors : Throw(e, TranslateError(e))
    /\ UNCHANGED <<op, args, ctx, server, stage, sent, received, out, cursor, found>>

----------------------------------------------------------------------------
(* getVaults *)

\* `/buckets/${projectId}/vaults/${vault.id}/vaults.json`
VaultsEndpoint(projectId, vault) ==
    <<"/", "buckets", "/">> \o projectId \o <<"/", "vaults", "/">>
        \o NumberToString(vault.id) \o <<"/", "vaults.json">>

\* a slip: the page is posted in the body
ListPagePosted(endpoint, page, c) ==
    ApiRequestCall("POST", endpoint, [page |-> page], EmptyObject, [accountId |-> c.accountId], c)

\* the request of one turn of a builder's page loop: basecampApiRequest('GET', endpoint, {}, { page }, accountId)
ListPageCall(endpoint, page, c) ==
    ApiRequestCall("GET", endpoint, EmptyObject, [page |-> page], [accountId |-> c.accountId], c)

getVaultsCalled == DockBuilderCalled("getVaults", Collections)

\* the project arrives at getVaults: lines 365-390
getVaultsProject ==
    /\ pc = "awaiting" /\ op = "getVaults" /\ stage = "project"
    /\ \E project \in Projects("vault") :
          LET vault == DockFind(project, "vault")
          IN  /\ received' = Append(received, project)
              /\ found' = [entry |-> vault]
              /\ IF vault = <<>>
                 THEN /\ Return(<<>>)
                      /\ UNCHANGED <<stage, sent, out, cursor>>
                 ELSE /\ out' = <<EntryOption(vault[1], <<"Root Vault">>)>>
                      /\ cursor' = [page |-> 1]
                      /\ stage' = "page"
                      /\ Issue(ListPageCall(VaultsEndpoint(ctx.projectId, vault[1]), 1, ctx))
                      /\ UNCHANGED result
    /\ UNCHANGED <<rejected, op, args, ctx, server>>

\* a page of child vaults arrives: lines 392-406, and line 383 of the next turn
getVaultsPage ==
    /\ pc = "awaiting" /\ op = "getVaults" /\ stage = "page"
    /\ \E vaults \in PageResponses(server, pending) :
          /\ received' = Append(received, vaults)
          /\ IF NoMore(vaults)
             THEN /\ Return(out)
                  /\ UNCHANGED <<sent, out, cursor>>
             ELSE LET returnData == PushOptions(out, vaults)
                  IN  /\ out' = returnData
                      /\ cursor' = [page |-> cursor.page + 1]
                      /\ IF HasMore(vaults)
                         THEN /\ Issue(ListPageCall(VaultsEndpoint(ctx.projectId, found.entry[1]),
                                                    cursor.page + 1, ctx))
                              /\ UNCHANGED result
                         ELSE /\ Return(returnData)
                              /\ UNCHANGED sent
    /\ UNCHANGED <<rejected, op, args, ctx, server, stage, found>>

----------------------------------------------------------------------------
(* getTodolists *)

\* todosetUrl.match(/buckets\/(\d+)\/todosets\/(\d+)/) from position i: the two captures
TodosetMatchAt(url, i) ==
    LET run(from) == { k \in from..Len(url) : \A d \in from..k : IsDigit(url[d]) }
        last(from) == CHOOSE k \in run(from) : \A r \in run(from) : r <= k
    IN  IF /\ i + 6 <= Len(url)
           /\ url[i] = "buckets" /\ url[i + 1] = "/"
           /\ run(i + 2) # {}
           /\ last(i + 2) + 4 <= Len(url)
           /\ url[last(i + 2) + 1] = "/"
           /\ url[last(i + 2) + 2] = "todosets"
           /\ url[last(i + 2) + 3] = "/"
           /\ run(last(i + 2) + 4) # {}
        THEN <<SubSeq(url, i + 2, last(i + 2)),
               SubSeq(url, last(i + 2) + 4, last(last(i + 2) + 4))>>
        ELSE <<>>

\* todosetUrl.match(...): the captures of the leftmost match, or none (null)
TodosetMatch(url) ==
    LET hits == { i \in 1..Len(url) : TodosetMatchAt(url, i) # <<>> }
    IN  IF hits = {} THEN <<>>
        ELSE TodosetMatchAt(url, CHOOSE i \in hits : \A h \in hits : i <= h)

\* project.dock?.find((d) => d.name === 'todoset')?.url; a falsy value is the empty string
TodosetUrl(project) ==
    LET entry == DockFind(project, "todoset")
    IN  IF entry # <<>> /\ Truthy(entry[1], "url") THEN entry[1].url ELSE <<>>

\* `/buckets/${projectId}/todosets/${todosetId}/todolists.json`
TodolistsEndpoint(projectId, todosetId) ==
    <<"/", "buckets", "/">> \o projectId \o <<"/", "todosets", "/">>
        \o todosetId \o <<"/", "todolists.json">>

\* the endpoint getTodolists lists, from the selected project and the captures: lines 234, 244
TodolistsTarget(projectId, urlParts) == TodolistsEndpoint(projectId, urlParts[2])

getTodolistsCalled == DockBuilderCalled("getTodolists", Collections)

\* the project arrives at getTodolists: lines 222-248
getTodolistsProject ==
    /\ pc = "awaiting" /\ op = "getTodolists" /\ stage = "project"
    /\ \E project \in Projects("todoset") :
          LET todosetUrl == TodosetUrl(project)
              urlParts   == TodosetMatch(todosetUrl)
          IN  /\ received' = Append(received, project)
              /\ found' = [todosetUrl |-> todosetUrl, urlParts |-> urlParts]
              /\ IF todosetUrl = <<>> \/ urlParts = <<>>
                 THEN /\ Return(<<>>)
                      /\ UNCHANGED <<stage, sent, out, cursor>>
                 ELSE /\ out' = <<>>
                      /\ cursor' = [page |-> 1]
                      /\ stage' = "page"
                      /\ Issue(ListPageCall(TodolistsTarget(ctx.projectId, urlParts), 1, ctx))
                      /\ UNCHANGED result
    /\ UNCHANGED <<rejected, op, args, ctx, server>>

\* a page of todolists arrives: lines 250-265, and line 241 of the next turn
getTodolistsPage ==
    /\ pc = "awaiting" /\ op = "getTodolists" /\ stage = "page"
    /\ \E todolists \in PageResponses(server, pending) :
          /\ received' = Append(received, todolists)
          /\ IF NoMore(todolists)
             THEN /\ Return(out)
                  /\ UNCHANGED <<sent, out, cursor>>
             ELSE LET returnData == PushOptions(out, todolists)
                  IN  /\ out' = returnData
                      /\ cursor' = [page |-> cursor.page + 1]
                      /\ IF HasMore(todolists)
                         THEN /\ Issue(ListPageCall(TodolistsTarget(ctx.projectId, found.urlParts),
                                                    cursor.page + 1, ctx))
                              /\ UNCHANGED result
                         ELSE /\ Return(returnData)
                              /\ UNCHANGED sent
    /\ UNCHANGED <<rejected, op, args, ctx, server, stage, found>>

----------------------------------------------------------------------------
(* getAccounts *)

LaunchpadUrl == <<"https://launchpad.37signals.com", "/", "authorization.json">>

\* the request getAccounts hands to the host: lines 156-169 (no extra argument)
AccountsCall ==
    [credentialsType |-> "basecampOAuth2Api",
     options |-> [headers |-> [UserAgent |-> "n8n (https://n8n.io)"],
                  method  |-> "GET",
                  url     |-> LaunchpadUrl,
                  json    |-> TRUE]]

Products == {"bc3", "bc4", "bcx", "campfire"}

\* a slip: only the product code of Basecamp 3 is accepted
SupportedThreeOnly(account) == account.product = "bc3"

\* account.product === 'bc3' || account.product === 'bc4'
Supported(account) == account.product = "bc3" \/ account.product = "bc4"

RECURSIVE AccountOptions(_)
\* for (const account of accounts) if (supported) returnData.push({ name, value })
AccountOptions(accounts) ==
    IF accounts = <<>> THEN <<>>
    ELSE LET account == Head(accounts)
             rest    == AccountOptions(Tail(accounts))
         IN  IF Supported(account)
             THEN <<[name |-> account.name, value |-> NumberToString(account.id)]>> \o rest
             ELSE rest

\* the account lists the authorization endpoint may send
AccountLists ==
    LET acct(i, p) == [id |-> 990 + i, name |-> <<"A">> \o NumberToString(i), product |-> p]
    IN  { <<>> } \cup { <<acct(1, p)>> : p \in Products }
        \cup { <<acct(1, p), acct(2, q)>> : p, q \in Products }
        \cup { <<acct(1, p), acct(2, q), acct(3, r)>> : p, q, r \in Products }

\* what the authorization endpoint may resolve to
Authorizations ==
    { [type |-> "object", identity |-> <<"me">>] }
    \cup { [type |-> "object", accounts |-> l] : l \in AccountLists }

\* getAccounts is called: lines 156-169 up to the await
getAccountsCalled ==
    /\ pc = "idle"
    /\ op' = "getAccounts"
    /\ args' = EmptyObject
    /\ stage' = "request"
    /\ Issue(AccountsCall)
    /\ out' = <<>>
    /\ UNCHANGED <<rejected, ctx, server, received, cursor, found, result>>

\* the authorization arrives: lines 171-185
getAccountsResolved ==
    /\ pc = "awaiting" /\ op = "getAccounts"
    /\ \E responseData \in Authorizations :
          LET returnData == IF "accounts" \in DOMAIN responseData
                            THEN AccountOptions(responseData.accounts)
                            ELSE <<>>
          IN  /\ received' = Append(received, responseData)
              /\ out' = returnData
              /\ Return(returnData)
    /\ UNCHANGED <<rejected, op, args, ctx, server, stage, sent, cursor, found>>

\* the authorization request fails: nothing catches the host's error
getAccountsRejected ==
    /\ pc = "awaiting" /\ op = "getAccounts"
    /\ \E e \in HostErrors : Throw(e, e)
    /\ UNCHANGED <<op, args, ctx, server, stage, sent, received, out, cursor, found>>

----------------------------------------------------------------------------
(* Basecamp.execute (nodes/Basecamp/Basecamp.node.ts), for the resource `project` *)

\* the most input items a run is given
MaxItems == 2

ProjectsEndpoint == <<"/", "projects.json">>

\* the values of the `limit` parameter: the least one, the default, and one above a page
Limits == {1, PageSize, PageSize + 10}

\* the node parameters and the input of a run: resource, operation, and what the operation reads
ExecuteRuns ==
    { [items |-> n, resource |-> "project", operation |-> o,
       returnAll |-> FALSE, limit |-> PageSize, updateFields |-> EmptyObject] :
          n \in 0..MaxItems, o \in {"create", "delete", "get"} }
    \cup
    { [items |-> n, resource |-> "project", operation |-> "update",
       returnAll |-> FALSE, limit |-> PageSize, updateFields |-> b] :
          n \in 0..MaxItems, b \in Bodies }
    \cup
    { [items |-> n, resource |-> "project", operation |-> "getAll",
       returnAll |-> TRUE, limit |-> PageSize, updateFields |-> EmptyObject] :
          n \in 0..MaxItems }
    \cup
    { [items |-> n, resource |-> "project", operation |-> "getAll",
       returnAll |-> FALSE, limit |-> l, updateFields |-> EmptyObject] :
          n \in 0..MaxItems, l \in Limits }

\* the remote collections of projects a run lists: none, a short page, a full page, a page
\* longer than the page size, a full page and a short one, two full pages
ListedCollections ==
    { <<>>, <<3>>, <<PageSize>>, <<PageSize + 1>>, <<PageSize, 3>>, <<PageSize, PageSize>> }

\* the operation lists with basecampApiRequestAllItems
ListsAll(a) == a.operation = "getAll" /\ a.returnAll

\* the first request of the operation for one item: lines 2938-3020
ItemRequest(a, c) ==
    LET account == [accountId |-> c.accountId]
        one     == ProjectEndpoint(c.projectId)
    IN  CASE a.operation = "create" ->
               ApiRequestCall("POST", ProjectsEndpoint, [name |-> <<"n">>], EmptyObject, account, c)
          [] a.operation = "delete" ->
               ApiRequestCall("DELETE", one, EmptyObject, EmptyObject, account, c)
          [] a.operation = "get" ->
               ApiRequestCall("GET", one, EmptyObject, EmptyObject, account, c)
          [] a.operation = "update" ->
               ApiRequestCall("PUT", one, a.updateFields, EmptyObject, account, c)
          [] a.operation = "getAll" ->
               ApiRequestCall("GET", ProjectsEndpoint, EmptyObject,
                              IF a.returnAll THEN [page |-> 1] ELSE EmptyObject, account, c)

\* a slip: every entry is paired with the first input item
ExecutionDataOfFirst(responseData, i) ==
    IF IsArray(responseData)
    THEN [k \in 1..Len(responseData.items) |->
             [json |-> responseData.items[k], pairedItem |-> [item |-> 0]]]
    ELSE <<[json |-> responseData, pairedItem |-> [item |-> 0]]>>

\* a slip: the entries are paired with the index of the item counted from 1
ExecutionDataFromOne(responseData, i) ==
    IF IsArray(responseData)
    THEN [k \in 1..Len(responseData.items) |->
             [json |-> responseData.items[k], pairedItem |-> [item |-> i + 1]]]
    ELSE <<[json |-> responseData, pairedItem |-> [item |-> i + 1]]>>

\* constructExecutionMetaData(returnJsonArray(responseData), { itemData: { item: i } })
ExecutionData(responseData, i) ==
    IF IsArray(responseData)
    THEN [k \in 1..Len(responseData.items) |->
             [json |-> responseData.items[k], pairedItem |-> [item |-> i]]]
    ELSE <<[json |-> responseData, pairedItem |-> [item |-> i]]>>

\* (error as Error).message: a NodeApiError words its message from the error it wraps,
\* any other error carries its own
MessageOf(error) ==
    IF error.type = "NodeApiError" THEN <<"NodeApiError", error.cause.message>>
    ELSE <<error.message>>

\* { error: (error as Error).message }
ErrorJson(error) == [type |-> "object", error |-> MessageOf(error)]

\* a slip: the limit is not applied
SliceNothing(items, limit) == items

\* responseData.slice(0, limit)
Slice(items, limit) == SubSeq(items, 1, IF limit < Len(items) THEN limit ELSE Len(items))

\* what calling .slice on a value that is no array throws
NoSliceError == [type |-> "TypeError", message |-> "responseData.slice is not a function"]

\* what the operation makes of the response of its request: a value, or an error it throws
OperationResult(a, r) ==
    CASE a.operation = "delete" -> [ok |-> TRUE, responseData |-> [type |-> "object", success |-> TRUE]]
      [] a.operation = "getAll" ->
           IF IsArray(r)
           THEN [ok |-> TRUE, responseData |-> JArray(Slice(r.items, a.limit))]
           ELSE [ok |-> FALSE, error |-> NoSliceError]
      [] OTHER -> [ok |-> TRUE, responseData |-> r]

\* what the request of an operation may resolve to
OperationResponses(a, collection, req) ==
    IF a.operation = "getAll" THEN PageResponses(collection, req) ELSE SingleResponses

\* the test of the item loop and the turn for item i up to its first await (line 2928), or
\* `return [returnData]` after the last item (line 4187)
ExecuteTurn(a, c, returnData, caught, i) ==
    /\ out' = returnData
    /\ found' = [caught |-> caught, collected |-> <<>>]
    /\ IF i < a.items
       THEN /\ cursor' = IF ListsAll(a) THEN [i |-> i, query |-> [page |-> 1]] ELSE [i |-> i]
            /\ stage' = IF ListsAll(a) THEN "page" ELSE "request"
            /\ Issue(ItemRequest(a, c))
            /\ UNCHANGED result
       ELSE /\ cursor' = [i |-> i]
            /\ Return(<<returnData>>)
            /\ UNCHANGED <<sent, stage>>

\* a slip: with continueOnFail off the run returns what it has collected
ExecuteCatchReturns(error) ==
    \E continue \in BOOLEAN :
        LET caught == Append(found.caught,
                             [item |-> cursor.i, error |-> error, continueOnFail |-> continue])
        IN  IF continue
            THEN ExecuteTurn(args, ctx, out \o ExecutionData(ErrorJson(error), cursor.i),
                             caught, cursor.i + 1)
            ELSE /\ Return(<<out>>)
                 /\ found' = [found EXCEPT !.caught = caught]
                 /\ UNCHANGED <<sent, out, cursor, stage>>

\* the catch block of the item loop, lines 4174-4184; `continue` is what continueOnFail() answers
ExecuteCatch(error) ==
    \E continue \in BOOLEAN :
        LET caught == Append(found.caught,
                             [item |-> cursor.i, error |-> error, continueOnFail |-> continue])
        IN  IF continue
            THEN ExecuteTurn(args, ctx, out \o ExecutionData(ErrorJson(error), cursor.i),
                             caught, cursor.i + 1)
            ELSE /\ pc' = "thrown"
                 /\ pending' = NoRequest
                 /\ result' = Thrown(error)
                 /\ found' = [found EXCEPT !.caught = caught]
                 /\ UNCHANGED <<sent, out, cursor, stage>>

\* execute is called: lines 2922-2928, and the first item up to its await
executeCalled ==
    /\ pc = "idle"
    /\ \E a \in ExecuteRuns :
          /\ op' = "execute"
          /\ args' = a
          /\ server' \in (IF a.operation = "getAll" THEN ListedCollections ELSE {<<>>})
          /\ ExecuteTurn(a, ctx, <<>>, <<>>, 0)
    /\ UNCHANGED <<rejected, ctx, received>>

\* the request of an item's operation resolves: the rest of the try block, lines 4168-4172
executeResolved ==
    /\ pc = "awaiting" /\ op = "execute" /\ stage = "request"
    /\ \E r \in OperationResponses(args, server, pending) :
          LET done == OperationResult(args, r)
          IN  /\ received' = Append(received, r)
              /\ IF done.ok
                 THEN ExecuteTurn(args, ctx, out \o ExecutionData(done.responseData, cursor.i),
                                  found.caught, cursor.i + 1)
                 ELSE ExecuteCatch(done.error)
    /\ UNCHANGED <<rejected, op, args, ctx, server>>

\* a page of an item's basecampApiRequestAllItems arrives: the next page, or the rest of the try
executePage ==
    /\ pc = "awaiting" /\ op = "execute" /\ stage = "page"
    /\ \E responseData \in PageResponses(server, pending) :
          LET collected == PushAll(found.collected, responseData)
          IN  /\ received' = Append(received, responseData)
              /\ IF LastPage(responseData)
                 THEN ExecuteTurn(args, ctx, out \o ExecutionData(JArray(collected), cursor.i),
                                  found.caught, cursor.i + 1)
                 ELSE LET query == SetKey(cursor.query, "page", cursor.query.page + 1)
                      IN  /\ cursor' = [cursor EXCEPT !.query = query]
                          /\ found' = [found EXCEPT !.collected = collected]
                          /\ Issue(ApiRequestCall("GET", ProjectsEndpoint, EmptyObject, query,
                                                  [accountId |-> ctx.accountId], ctx))
                          /\ UNCHANGED <<out, stage, result>>
    /\ UNCHANGED <<rejected, op, args, ctx, server>>

\* a request of an item's operation fails inside basecampApiRequest: the catch block gets the NodeApiError
executeRejected ==
    /\ pc = "awaiting" /\ op = "execute"
    /\ \E e \in HostErrors :
          /\ rejected' = Append(rejected, e)
          /\ ExecuteCatch(TranslateError(e))
    /\ UNCHANGED <<op, args, ctx, server, received>>

----------------------------------------------------------------------------
(* getProjects, getPeople, getMessages: the builders that list with basecampFetchAllPages *)

LinkBuilders == {"getProjects", "getPeople", "getMessages"}

\* `/buckets/${projectId}/message_boards/${messageBoardId}/messages.json`
MessagesEndpoint(projectId, messageBoardId) ==
    <<"/", "buckets", "/">> \o projectId \o <<"/", "message_boards", "/">>
        \o messageBoardId \o <<"/", "messages.json">>

\* the endpoint each of the builders hands to basecampFetchAllPages
LinkListing(builder, c) ==
    CASE builder = "getProjects" -> ProjectsEndpoint
      [] builder = "getPeople"   -> <<"/", "people.json">>
      [] builder = "getMessages" -> MessagesEndpoint(c.projectId, c.messageBoardId)

\* an item as the listing endpoint of a builder sends it: a project and a person have a
\* name; a message has a subject, here an empty one on every second message
Listed(builder, item) ==
    IF builder = "getMessages"
    THEN item @@ [subject |-> IF item.id % 2 = 1 THEN <<"s">> \o NumberToString(item.id) ELSE <<>>]
    ELSE item @@ [name |-> <<"N">> \o NumberToString(item.id)]

\* what the host may deliver as the n-th response of a builder's Link-header walk
ListingResponses(builder, n, account, endpoint) ==
    { IF IsArray(r.body)
      THEN [r EXCEPT !.body = JArray([i \in 1..Len(r.body.items) |-> Listed(builder, r.body.items[i])])]
      ELSE r :
        r \in LinkResponses(n, account, endpoint) }

\* message.subject || message.title
SubjectOr(message) == IF Truthy(message, "subject") THEN message.subject ELSE message.title

\* { name: project.name, value: project.id.toString() }, or the message's subject or title for name
ListedOption(builder, item) ==
    [name  |-> IF builder = "getMessages" THEN SubjectOr(item) ELSE item.name,
     value |-> NumberToString(item.id)]

\* a builder is called: basecampFetchAllPages(endpoint, accountId) up to its first await
LinkBuilderCalled(builder) ==
    /\ pc = "idle"
    /\ LET nextUrl == ApiUrl(AccountOf([accountId |-> ctx.accountId], ctx), LinkListing(builder, ctx))
       IN  /\ op' = builder
           /\ cursor' = [nextUrl |-> nextUrl]
           /\ Issue(LinkPageCall(nextUrl))
    /\ args' = EmptyObject
    /\ stage' = "page"
    /\ out' = <<>>
    /\ UNCHANGED <<rejected, ctx, server, received, found, result>>

\* a page of the builder's walk arrives: the next page, or the options of everything collected
LinkBuilderPage(builder) ==
    /\ pc = "awaiting" /\ op = builder
    /\ \E res \in ListingResponses(builder, Len(received) + 1, ctx.accountId,
                                   LinkListing(builder, ctx)) :
          LET acc     == PushAll(out, res.body)
              nextUrl == NextUrlOf(LinkHeader(res))
          IN  /\ received' = Append(received, res)
              /\ out' = acc
              /\ cursor' = [nextUrl |-> nextUrl]
              /\ IF nextUrl # <<>>
                 THEN /\ Len(sent) < MaxLinkPages
                      /\ Issue(LinkPageCall(nextUrl))
                      /\ UNCHANGED result
                 ELSE /\ Return([i \in 1..Len(acc) |-> ListedOption(builder, acc[i])])
                      /\ UNCHANGED sent
    /\ UNCHANGED <<rejected, op, args, ctx, server, stage, found>>

getProjectsCalled == LinkBuilderCalled("getProjects")

getProjectsPage == LinkBuilderPage("getProjects")

getPeopleCalled == LinkBuilderCalled("getPeople")

getPeoplePage == LinkBuilderPage("getPeople")

getMessagesCalled == LinkBuilderCalled("getMessages")

getMessagesPage == LinkBuilderPage("getMessages")

\* a page of a builder's walk fails: nothing catches the host's error
LinkBuilderRejected ==
    /\ pc = "awaiting" /\ op \in LinkBuilders
    /\ \E e \in HostErrors : Throw(e, e)
    /\ UNCHANGED <<op, args, ctx, server, stage, sent, received, out, cursor, found>>

----------------------------------------------------------------------------
(* getQuestions, getDocuments, getUploads, getWebhooks, getTemplates: the builders *)
(* that page an endpoint with a loop of their own; and getCardTableColumns         *)

PageLoopBuilders == {"getQuestions", "getDocuments", "getUploads", "getWebhooks", "getTemplates"}

\* the endpoint each of the builders pages
PageLoopEndpoint(builder, c) ==
    CASE builder = "getQuestions" ->
            <<"/", "buckets", "/">> \o c.projectId \o <<"/", "questionnaires", "/">>
                \o c.questionnaireId \o <<"/", "questions.json">>
      [] builder = "getDocuments" ->
            <<"/", "buckets", "/">> \o c.projectId \o <<"/", "vaults", "/">>
                \o c.vaultId \o <<"/", "documents.json">>
      [] builder = "getUploads" ->
            <<"/", "buckets", "/">> \o c.projectId \o <<"/", "vaults", "/">>
                \o c.vaultId \o <<"/", "uploads.json">>
      [] builder = "getWebhooks" ->
            <<"/", "buckets", "/">> \o c.projectId \o <<"/", "webhooks.json">>
      [] builder = "getTemplates" -> <<"/", "templates.json">>

\* the name each of the builders gives an item: its title, `upload.title || upload.filename`,
\* `webhook.payload_url || \`Webhook ${webhook.id}\``, or the template's name
PageLoopName(builder, item) ==
    CASE builder \in {"getQuestions", "getDocuments"} -> item.title
      [] builder = "getUploads" ->
            IF Truthy(item, "title") THEN item.title ELSE item.filename
      [] builder = "getWebhooks" ->
            IF Truthy(item, "payload_url") THEN item.payload_url
            ELSE <<"Webhook", " ">> \o NumberToString(item.id)
      [] builder = "getTemplates" -> item.name

\* for (const item of page) returnData.push({ name, value: item.id.toString() })
PageLoopPush(builder, acc, page) ==
    acc \o [i \in 1..Len(page.items) |->
               [name  |-> PageLoopName(builder, Listed(builder, page.items[i])),
                value |-> NumberToString(page.items[i].id)]]

\* a builder is called: page = 1, and the first request up to the await
PageLoopCalled(builder) ==
    /\ pc = "idle"
    /\ op' = builder
    /\ args' = EmptyObject
    /\ server' \in ListedCollections
    /\ stage' = "page"
    /\ cursor' = [page |-> 1]
    /\ Issue(ListPageCall(PageLoopEndpoint(builder, ctx), 1, ctx))
    /\ out' = <<>>
    /\ UNCHANGED <<rejected, ctx, received, found, result>>

\* a page arrives: the rest of the loop's turn, and the request of the next turn
PageLoopPage(builder) ==
    /\ pc = "awaiting" /\ op = builder
    /\ \E page \in PageResponses(server, pending) :
          /\ received' = Append(received, page)
          /\ IF NoMore(page)
             THEN /\ Return(out)
                  /\ UNCHANGED <<sent, out, cursor>>
             ELSE LET returnData == PageLoopPush(builder, out, page)
                  IN  /\ out' = returnData
                      /\ cursor' = [page |-> cursor.page + 1]
                      /\ IF HasMore(page)
                         THEN /\ Issue(ListPageCall(PageLoopEndpoint(builder, ctx),
                                                    cursor.page + 1, ctx))
                              /\ UNCHANGED result
                         ELSE /\ Return(returnData)
                              /\ UNCHANGED sent
    /\ UNCHANGED <<rejected, op, args, ctx, server, stage, found>>

\* what the card table request may resolve to: a table without lists, or one with columns
CardTables ==
    { [type |-> "object", id |-> 7], [type |-> "object", id |-> 7, lists |-> <<>>],
      [type |-> "object", id |-> 7, lists |-> Items(1, 2)] }

\* getCardTableColumns is called: the card table request, up to the await
getCardTableColumnsCalled ==
    /\ pc = "idle"
    /\ op' = "getCardTableColumns"
    /\ args' = EmptyObject
    /\ stage' = "cardTable"
    /\ Issue(ApiRequestCall("GET",
                            <<"/", "buckets", "/">> \o ctx.projectId \o <<"/", "card_tables", "/">>
                                \o ctx.cardTableId \o <<".json">>,
                            EmptyObject, EmptyObject, [accountId |-> ctx.accountId], ctx))
    /\ out' = <<>>
    /\ UNCHANGED <<rejected, ctx, server, received, cursor, found, result>>

\* the card table arrives: one option for each of its columns, if it has any
getCardTableColumnsResolved ==
    /\ pc = "awaiting" /\ op = "getCardTableColumns"
    /\ \E cardTable \in CardTables :
          /\ received' = Append(received, cardTable)
          /\ IF "lists" \in DOMAIN cardTable
             THEN Return([i \in 1..Len(cardTable.lists) |-> ItemOption(cardTable.lists[i])])
             ELSE Return(<<>>)
    /\ UNCHANGED <<rejected, op, args, ctx, server, stage, sent, out, cursor, found>>

Next ==
    \/ ApiRequestCalled
    \/ ApiRequestResolved
    \/ ApiRequestRejected
    \/ FetchAllPagesCalled
    \/ FetchAllPagesResolved
    \/ FetchAllPagesRejected
    \/ AllItemsCalled
    \/ AllItemsResolved
    \/ AllItemsRejected
    \/ getMessageBoardsCalled
    \/ getMessageBoardsResolved
    \/ getCampfiresCalled
    \/ getCampfiresResolved
    \/ getSchedulesCalled
    \/ getSchedulesResolved
    \/ getQuestionnairesCalled
    \/ getQuestionnairesResolved
    \/ getCardTablesCalled
    \/ getCardTablesResolved
    \/ getTodosetsCalled
    \/ getTodosetsResolved
    \/ BuilderRejected
    \/ getVaultsCalled
    \/ getVaultsProject
    \/ getVaultsPage
    \/ getTodolistsCalled
    \/ getTodolistsProject
    \/ getTodolistsPage
    \/ getAccountsCalled
    \/ getAccountsResolved
    \/ getAccountsRejected
    \/ executeCalled
    \/ executeResolved
    \/ executePage
    \/ executeRejected
    \/ getProjectsCalled
    \/ getProjectsPage
    \/ getPeopleCalled
    \/ getPeoplePage
    \/ getMessagesCalled
    \/ getMessagesPage
    \/ LinkBuilderRejected
    \/ \E builder \in PageLoopBuilders : PageLoopCalled(builder)
    \/ \E builder \in PageLoopBuilders : PageLoopPage(builder)
    \/ getCardTableColumnsCalled
    \/ getCardTableColumnsResolved

Spec == Init /\ [][Next]_vars

----------------------------------------------------------------------------
(* basecampApiRequestAllItems when every request it awaits is completed: the host *)
(* settles the promise of each request, with a response or with an error          *)

\* the walk is called for a GET of /projects.json, with any query, against any collection
WalkCalled ==
    /\ pc = "idle"
    /\ \E q \in Queries, c \in Collections :
          AllItemsCalledWith("GET", ProjectsEndpoint, EmptyObject, q,
                             [accountId |-> ctx.accountId], c)

WalkNext == WalkCalled \/ AllItemsResolved \/ AllItemsRejected

WalkSpec == Init /\ [][WalkNext]_vars /\ WF_vars(AllItemsResolved \/ AllItemsRejected)

----------------------------------------------------------------------------
(* Two invocations of the walks that interleave at their awaits.            *)
(* In this specification pc, op, args, server, pending, sent, received,    *)
(* rejected, out, found and result hold one value per invocation, and       *)
(* cursor holds the query objects of the caller, by reference: an argument *)
(* `query` is the reference of the object that was passed.                 *)

Invocations == {1, 2}

\* the references of the query objects the caller holds
QueryObjects == {1, 2}

\* the remote collections the two invocations walk
WalkedCollections == { <<3>>, <<PageSize, 3>>, <<PageSize, PageSize>> }

\* the n-th response of a Link-header walk over a collection: the page, and a next link
\* on every page but the last
LinkPageOf(collection, n, account, endpoint) ==
    [body    |-> IF n \in 1..Len(collection) THEN JArray(Items(n, collection[n])) ELSE JArray(<<>>),
     headers |-> IF n < Len(collection)
                 THEN OtherHeaders @@ [link |-> LinkNext(PageUrl(account, endpoint, n + 1))]
                 ELSE OtherHeaders]

InterleavedInit ==
    /\ pc = [i \in Invocations |-> "idle"]
    /\ op = [i \in Invocations |-> "none"]
    /\ args = [i \in Invocations |-> EmptyObject]
    /\ ctx = [accountId |-> <<"4", "2">>, projectId |-> <<"5", "5">>, messageBoardId |-> <<"8">>]
    /\ server = [i \in Invocations |-> <<>>]
    /\ stage = "none"
    /\ pending = [i \in Invocations |-> NoRequest]
    /\ sent = [i \in Invocations |-> <<>>]
    /\ received = [i \in Invocations |-> <<>>]
    /\ rejected = [i \in Invocations |-> <<>>]
    /\ out = [i \in Invocations |-> <<>>]
    /\ cursor = [r \in QueryObjects |-> EmptyObject]
    /\ found = [i \in Invocations |-> EmptyObject]
    /\ result = [i \in Invocations |-> NoResult]

\* invocation i hands a request to the host and suspends
IssueOf(i, req) ==
    /\ pending' = [pending EXCEPT ![i] = req]
    /\ sent' = [sent EXCEPT ![i] = Append(@, req)]
    /\ pc' = [pc EXCEPT ![i] = "awaiting"]

\* invocation i returns a value
ReturnOf(i, value) ==
    /\ pc' = [pc EXCEPT ![i] = "returned"]
    /\ pending' = [pending EXCEPT ![i] = NoRequest]
    /\ result' = [result EXCEPT ![i] = Returned(value)]

\* the mutant of NextPageQuery: one page counter for every walk
NextPageOfSharedCounter(heap, r) ==
    LET pages == { heap[q].page : q \in { o \in DOMAIN heap : "page" \in DOMAIN heap[o] } }
        top   == CHOOSE p \in pages : \A o \in pages : o <= p
    IN  SetKey(heap[r], "page", top + 1)

\* query.page = query.page + 1, on the object the walk was given: line 142
NextPageQuery(heap, r) == SetKey(heap[r], "page", heap[r].page + 1)

\* basecampApiRequestAllItems is called with a query object of the caller: lines 124-131
InterleavedAllItemsCalled(i) ==
    /\ pc[i] = "idle"
    /\ \E r \in { q \in QueryObjects : q <= i }, c \in WalkedCollections :
          LET query == SetKey(cursor[r], "page", 1)
          IN  /\ op' = [op EXCEPT ![i] = "basecampApiRequestAllItems"]
              /\ args' = [args EXCEPT ![i] =
                             [method |-> "GET", endpoint |-> ProjectsEndpoint,
                              body |-> EmptyObject, query |-> r, accountId |-> ctx.accountId]]
              /\ server' = [server EXCEPT ![i] = c]
              /\ cursor' = [cursor EXCEPT ![r] = query]
              /\ IssueOf(i, ApiRequestCall("GET", ProjectsEndpoint, EmptyObject, query,
                                           [accountId |-> ctx.accountId], ctx))
    /\ out' = [out EXCEPT ![i] = <<>>]
    /\ UNCHANGED <<ctx, stage, received, rejected, found, result>>

\* a page of invocation i arrives: lines 133-147, and line 131 of the next turn
InterleavedAllItemsResolved(i) ==
    /\ pc[i] = "awaiting" /\ op[i] = "basecampApiRequestAllItems"
    /\ LET responseData == PageOf(server[i], pending[i])
           returnData   == PushAll(out[i], responseData)
           r            == args[i].query
       IN  /\ received' = [received EXCEPT ![i] = Append(@, responseData)]
           /\ out' = [out EXCEPT ![i] = returnData]
           /\ IF LastPage(responseData)
              THEN /\ ReturnOf(i, returnData)
                   /\ UNCHANGED <<sent, cursor>>
              ELSE LET query == NextPageQuery(cursor, r)
                   IN  /\ cursor' = [cursor EXCEPT ![r] = query]
                       /\ IssueOf(i, ApiRequestCall("GET", ProjectsEndpoint, EmptyObject, query,
                                                    [accountId |-> ctx.accountId], ctx))
                       /\ UNCHANGED result
    /\ UNCHANGED <<op, args, ctx, server, stage, rejected, found>>

\* basecampFetchAllPages is called: lines 72-97 up to the first await
InterleavedFetchAllPagesCalled(i) ==
    /\ pc[i] = "idle"
    /\ \E c \in WalkedCollections :
          LET nextUrl == ApiUrl(AccountOf([accountId |-> ctx.accountId], ctx), ProjectsEndpoint)
          IN  /\ op' = [op EXCEPT ![i] = "basecampFetchAllPages"]
              /\ args' = [args EXCEPT ![i] =
                             [endpoint |-> ProjectsEndpoint, accountId |-> ctx.accountId]]
              /\ server' = [server EXCEPT ![i] = c]
              /\ found' = [found EXCEPT ![i] = [nextUrl |-> nextUrl]]
              /\ IssueOf(i, LinkPageCall(nextUrl))
    /\ out' = [out EXCEPT ![i] = <<>>]
    /\ UNCHANGED <<ctx, stage, received, rejected, cursor, result>>

\* a page of invocation i arrives: lines 99-110, and lines 76-97 of the next turn
InterleavedFetchAllPagesResolved(i) ==
    /\ pc[i] = "awaiting" /\ op[i] = "basecampFetchAllPages"
    /\ LET res     == LinkPageOf(server[i], Len(received[i]) + 1, ctx.accountId, ProjectsEndpoint)
           acc     == PushAll(out[i], res.body)
           nextUrl == NextUrlOf(LinkHeader(res))
       IN  /\ received' = [received EXCEPT ![i] = Append(@, res)]
           /\ out' = [out EXCEPT ![i] = acc]
           /\ found' = [found EXCEPT ![i] = [nextUrl |-> nextUrl]]
           /\ IF nextUrl # <<>>
              THEN /\ IssueOf(i, LinkPageCall(nextUrl))
                   /\ UNCHANGED result
              ELSE /\ ReturnOf(i, acc)
                   /\ UNCHANGED sent
    /\ UNCHANGED <<op, args, ctx, server, stage, rejected, cursor>>

\* the pending request of invocation i fails: the walk ends with the error
InterleavedRejected(i) ==
    /\ pc[i] = "awaiting"
    /\ \E e \in HostErrors :
          /\ rejected' = [rejected EXCEPT ![i] = Append(@, e)]
          /\ result' = [result EXCEPT ![i] =
                           Thrown(IF op[i] = "basecampApiRequestAllItems"
                                  THEN TranslateError(e) ELSE e)]
    /\ pc' = [pc EXCEPT ![i] = "thrown"]
    /\ pending' = [pending EXCEPT ![i] = NoRequest]
    /\ UNCHANGED <<op, args, ctx, server, stage, sent, received, out, cursor, found>>

InterleavedNext ==
    \E i \in Invocations :
        \/ InterleavedAllItemsCalled(i)
        \/ InterleavedAllItemsResolved(i)
        \/ InterleavedFetchAllPagesCalled(i)
        \/ InterleavedFetchAllPagesResolved(i)
        \/ InterleavedRejected(i)

InterleavedSpec == InterleavedInit /\ [][InterleavedNext]_vars

----------------------------------------------------------------------------
(* What the claims speak of *)

LinkWalk == op = "basecampFetchAllPages"

CountWalk == op = "basecampApiRequestAllItems"

\* the Link header of a response, whatever the capitalisation of its name
LinkField(res) ==
    IF "headers" \notin DOMAIN res THEN <<>>
    ELSE LET names == {"link", "Link", "LINK"} \cap DOMAIN res.headers
         IN  IF names = {} THEN <<>> ELSE res.headers[CHOOSE n \in names : TRUE]

\* the target of the rel="next" entry of a Link header value: what stands between the
\* angle brackets before the entry's rel, or nothing when no entry has rel="next"
RelNextTarget(link) ==
    LET rels == { n \in 1..Len(link) : link[n] = RelNext }
    IN  IF rels = {} THEN <<>>
        ELSE LET n     == CHOOSE r \in rels : TRUE
                 close == CHOOSE j \in 1..n : link[j] = ">" /\ \A k \in (j + 1)..n : link[k] # ">"
                 open  == CHOOSE i \in 1..close :
                              link[i] = "<" /\ \A k \in (i + 1)..close : link[k] # "<"
             IN  SubSeq(link, open + 1, close - 1)

\* C1: in the Link-header walk every response whose Link header carries a rel="next"
\* target is followed by exactly one further GET, to that target, in the order the
\* responses arrive, and the walk returns at the first response without a rel="next" entry
C1_OneRequestPerNextLink ==
    LinkWalk =>
        /\ Len(sent) <= Len(received) + 1
        /\ \A k \in 1..Len(received) :
              LET target == RelNextTarget(LinkField(received[k]))
              IN  IF target # <<>>
                  THEN /\ Len(sent) > k
                       /\ sent[k + 1].options.method = "GET"
                       /\ sent[k + 1].options.url = target
                  ELSE /\ Len(sent) = k
                       /\ pc = "returned"

----------------------------------------------------------------------------
(* Count-heuristic walk: C2, C3 *)

RECURSIVE AllItems(_, _)
\* every item of the pages p..last of a collection, in page order
AllItems(collection, p) ==
    IF p > Len(collection) THEN <<>>
    ELSE Items(p, collection[p]) \o AllItems(collection, p + 1)

RECURSIVE Total(_, _)
\* the number of items of the pages p..last of a collection
Total(collection, p) ==
    IF p > Len(collection) THEN 0 ELSE collection[p] + Total(collection, p + 1)

\* every page except the last has exactly 50 items and the last has k < 50 items; when the
\* collection ends on a full page (or is empty) the last page is the empty one that follows
FiftyPaged(collection) ==
    \A p \in 1..Len(collection) :
        IF p < Len(collection) THEN collection[p] = PageSize ELSE collection[p] <= PageSize

\* every request of the call was answered with an array
OnlyArrays == \A k \in 1..Len(received) : IsArray(received[k])

Ceil(n, d) == (n + d - 1) \div d

\* a count-heuristic walk over a paged sequence of 50-item pages and a short last page returned
WalkedFiftyPaged == CountWalk /\ pc = "returned" /\ FiftyPaged(server) /\ OnlyArrays

\* C2 as stated: over pages of exactly 50 items and a last page of k < 50 items, n items
\* in all, the walk issues exactly ceil(n/50) requests and returns all n items
C2_CeilRequests ==
    WalkedFiftyPaged =>
        /\ Len(sent) = Ceil(Total(server, 1), PageSize)
        /\ result.value = AllItems(server, 1)

\* C2 amended: over such pages the walk issues exactly floor(n/50) + 1 requests, which is
\* ceil(n/50) when k > 0 and one more when the last page is empty, and returns all n items
C2_FloorPlusOneRequests ==
    WalkedFiftyPaged =>
        /\ Len(sent) = (Total(server, 1) \div PageSize) + 1
        /\ \A k \in 1..Len(sent) : PageAsked(sent[k]) = k
        /\ Len(result.value) = Total(server, 1)
        /\ result.value = AllItems(server, 1)

\* two full pages and the empty page after them were walked
C2_Witness ==
    WalkedFiftyPaged /\ server = <<PageSize, PageSize>> /\ Len(sent) = 3 /\ Len(result.value) = 100

\* C3: the walk ends after exactly one request whenever the first page has fewer than 50
\* items, the empty array included
C3_OneRequestOnShortFirstPage ==
    (/\ CountWalk
     /\ Len(received) >= 1
     /\ IsArray(received[1])
     /\ Len(received[1].items) < PageSize)
    => /\ pc = "returned"
       /\ Len(sent) = 1
       /\ Len(received) = 1
       /\ result.value = received[1].items

\* the first page had 3 items, and the walk returned them after one request
C3_Witness ==
    /\ CountWalk /\ pc = "returned" /\ Len(sent) = 1
    /\ IsArray(received[1]) /\ Len(received[1].items) = 3

\* the first page was empty, and the walk returned after one request
C3_WitnessEmpty ==
    /\ CountWalk /\ pc = "returned" /\ Len(sent) = 1
    /\ IsArray(received[1]) /\ received[1].items = <<>>

----------------------------------------------------------------------------
(* Dock builders: C4, C5, C7 *)

\* the dock entry each builder needs
RequiredDock ==
    [getCampfires      |-> "chat",
     getMessageBoards  |-> "message_board",
     getSchedules      |-> "schedule",
     getQuestionnaires |-> "questionnaire",
     getCardTables     |-> "kanban_board",
     getTodosets       |-> "todoset",
     getVaults         |-> "vault",
     getTodolists      |-> "todoset"]

DockBuilder == op \in DOMAIN RequiredDock

\* the project a dock builder fetched
FetchedProject == received[1]

\* the dock of a project has an entry of the name
HasDockEntry(project, name) ==
    /\ "dock" \in DOMAIN project
    /\ \E i \in 1..Len(project.dock) : project.dock[i].name = name

\* the first dock entry of the name
DockEntryOf(project, name) ==
    project.dock[CHOOSE i \in 1..Len(project.dock) :
                    /\ project.dock[i].name = name
                    /\ \A j \in 1..(i - 1) : project.dock[j].name # name]

\* C4: a dock builder returns the empty list, raises nothing and lists nothing, whenever the
\* project it fetched has no dock entry of the name it needs, or no dock at all
C4_NoDockEntryNoOptions ==
    (DockBuilder /\ Len(received) >= 1 /\ ~HasDockEntry(FetchedProject, RequiredDock[op]))
    => /\ pc = "returned"
       /\ result = Returned(<<>>)
       /\ rejected = <<>>
       /\ Len(sent) = 1

\* getCampfires met a dock that has entries, none of them the chat, and returned no option
C4_Witness ==
    /\ op = "getCampfires" /\ pc = "returned"
    /\ "dock" \in DOMAIN FetchedProject /\ FetchedProject.dock # <<>>
    /\ ~HasDockEntry(FetchedProject, "chat")
    /\ result.value = <<>>

\* getTodolists met a project without a dock field and returned no option
C4_WitnessNoDock ==
    /\ op = "getTodolists" /\ pc = "returned"
    /\ "dock" \notin DOMAIN FetchedProject
    /\ result.value = <<>>

\* the endpoint that lists the todolists of todoset T of bucket B
TodolistsOf(bucket, todoset) ==
    <<"/", "buckets", "/">> \o bucket \o <<"/", "todosets", "/">> \o todoset
        \o <<"/", "todolists.json">>

\* the todoset URL of the project getTodolists fetched, or nothing
FetchedTodosetUrl ==
    IF HasDockEntry(FetchedProject, "todoset")
       /\ Truthy(DockEntryOf(FetchedProject, "todoset"), "url")
    THEN DockEntryOf(FetchedProject, "todoset").url
    ELSE <<>>

\* C5: when the todoset URL matches buckets/B/todosets/T every todolist listing request of
\* getTodolists goes to bucket B and todoset T of that URL, whatever project was selected;
\* when it does not match, the builder returns the empty list and lists nothing
C5_TodolistsOfUrlBucket ==
    (op = "getTodolists" /\ Len(received) >= 1 /\ FetchedTodosetUrl # <<>>)
    => LET parts == TodosetMatch(FetchedTodosetUrl)
       IN  IF parts # <<>>
           THEN /\ Len(sent) >= 2
                /\ \A k \in 2..Len(sent) :
                      sent[k].options.url
                          = ApiUrl(ctx.accountId, TodolistsOf(parts[1], parts[2]))
           ELSE /\ pc = "returned"
                /\ result = Returned(<<>>)
                /\ Len(sent) = 1

\* the options of the items of the pages from..last the call received, in page order
RECURSIVE OptionsOfPages(_, _)
OptionsOfPages(pages, from) ==
    IF from > Len(pages) THEN <<>>
    ELSE (IF IsArray(pages[from])
          THEN [i \in 1..Len(pages[from].items) |-> ItemOption(pages[from].items[i])]
          ELSE <<>>)
         \o OptionsOfPages(pages, from + 1)

\* getVaults returned for a project whose dock has a vault entry
VaultsListed == op = "getVaults" /\ pc = "returned" /\ HasDockEntry(FetchedProject, "vault")

RootVault == DockEntryOf(FetchedProject, "vault")

\* every page request of the builder was answered with an array
OnlyArrayPages == \A k \in 2..Len(received) : IsArray(received[k])

\* C7 as stated: the first entry is {name: title, value: id as a string}, the child vaults of
\* every page follow in page order, and child pages of 50 and 3 items give 54 entries
C7_RootVaultByTitle ==
    VaultsListed =>
        /\ "title" \in DOMAIN RootVault
        /\ result.value[1] = [name |-> RootVault.title, value |-> NumberToString(RootVault.id)]
        /\ Tail(result.value) = OptionsOfPages(received, 2)
        /\ (server = <<PageSize, 3>> /\ OnlyArrayPages => Len(result.value) = 54)

\* C7 amended: the first entry is the root vault, named by its title or, when the title is
\* missing or empty, 'Root Vault'; the child vaults of every page follow in page order, and
\* child pages of 50 and 3 items give 54 entries
C7_RootVaultFirst ==
    VaultsListed =>
        /\ result.value[1] =
              [name  |-> IF "title" \in DOMAIN RootVault /\ RootVault.title # <<>>
                         THEN RootVault.title ELSE <<"Root Vault">>,
               value |-> NumberToString(RootVault.id)]
        /\ Tail(result.value) = OptionsOfPages(received, 2)
        /\ (FiftyPaged(server) /\ OnlyArrayPages =>
               Len(result.value) = 1 + Total(server, 1)
               /\ \A i \in 1..Total(server, 1) :
                     result.value[i + 1] = ItemOption(AllItems(server, 1)[i]))
        /\ (server = <<PageSize, 3>> /\ OnlyArrayPages => Len(result.value) = 54)

\* the vault "Docs" with id 55 and child pages of 50 and 3 items gave 54 entries
C7_Witness ==
    /\ VaultsListed /\ server = <<PageSize, 3>> /\ OnlyArrayPages
    /\ Len(result.value) = 54
    /\ result.value[1] = [name |-> <<"Docs">>, value |-> <<"5", "5">>]

----------------------------------------------------------------------------
(* Request client: C6, C8, C9, C10 *)

\* the call was made with an account id of the caller's: passed and not empty
AccountSupplied == Truthy(args, "accountId")

EngineCall == op \in {"basecampApiRequest", "basecampApiRequestAllItems", "basecampFetchAllPages"}

\* C6 as stated: every request URL of a call made with an account id, the follow-up page
\* requests of the walks included, has that id right after the API origin
C6_AccountInEveryUrl ==
    (EngineCall /\ AccountSupplied) =>
        \A k \in 1..Len(sent) :
            StartsWith(sent[k].options.url, ApiOrigin \o args.accountId \o <<"/">>)

\* C6 amended: every URL the call builds (every request of basecampApiRequest and of the
\* count-heuristic walk, and the first request of the Link-header walk) is the API origin,
\* the caller's account id and the endpoint; a follow-up request of the Link-header walk
\* goes to the rel="next" target of the response before it, as the server wrote it
C6_AccountInEveryBuiltUrl ==
    (EngineCall /\ AccountSupplied) =>
        \A k \in 1..Len(sent) :
            IF LinkWalk /\ k > 1
            THEN sent[k].options.url = RelNextTarget(LinkField(received[k - 1]))
            ELSE sent[k].options.url = ApiOrigin \o args.accountId \o args.endpoint

\* a Link-header walk called with account 99 followed a next link into another account
C6_Witness ==
    /\ LinkWalk /\ AccountSupplied /\ Len(sent) >= 2
    /\ sent[1].options.url = ApiOrigin \o args.accountId \o args.endpoint
    /\ ~StartsWith(sent[2].options.url, ApiOrigin \o args.accountId)

\* a count-heuristic walk called with account 99 asked for a second page under that account
C6_WitnessCount ==
    /\ CountWalk /\ AccountSupplied /\ Len(sent) >= 2
    /\ sent[2].options.url = ApiOrigin \o <<"9", "9">> \o args.endpoint

\* C8: when the host's call fails, basecampApiRequest raises a NodeApiError that wraps the
\* host's error, and never completes with a value
C8_FailureRaisesNodeApiError ==
    (op = "basecampApiRequest" /\ rejected # <<>>)
    => /\ pc = "thrown"
       /\ result.kind = "thrown"
       /\ result.error.type = "NodeApiError"
       /\ result.error.cause = rejected[1]

\* a call of basecampApiRequest threw after the host rejected it
C8_Witness ==
    /\ op = "basecampApiRequest" /\ pc = "thrown"
    /\ rejected = <<[type |-> "HostError", message |-> "404 Not Found"]>>

\* C9: the failure of any request the engine issues reaches the caller as a NodeApiError
\* that carries the host's error, never as the host's error itself
C9_EveryFailureTranslated ==
    rejected # <<>>
    => /\ result.kind = "thrown"
       /\ result.error.type = "NodeApiError"
       /\ result.error.cause = rejected[1]

\* C10: a request of basecampApiRequest has a body exactly when the body map has a key and
\* a query string exactly when the query map has a key, and no request carries an empty one
C10_EmptyBodyAndQueryOmitted ==
    /\ op = "basecampApiRequest" =>
          \A k \in 1..Len(sent) :
              LET o == sent[k].options
              IN  /\ ("body" \in DOMAIN o) <=> (Keys(args.body) # {})
                  /\ ("qs" \in DOMAIN o) <=> (Keys(args.query) # {})
                  /\ "body" \in DOMAIN o => o.body = args.body
                  /\ "qs" \in DOMAIN o => o.qs = args.query
    /\ \A k \in 1..Len(sent) :
          LET o == sent[k].options
          IN  /\ "body" \in DOMAIN o => Keys(o.body) # {}
              /\ "qs" \in DOMAIN o => Keys(o.qs) # {}

\* a request went out without a body, for an empty body map, and with its query
C10_Witness ==
    /\ op = "basecampApiRequest" /\ Len(sent) = 1
    /\ Keys(args.body) = {} /\ Keys(args.query) # {}
    /\ "body" \notin DOMAIN sent[1].options
    /\ sent[1].options.qs = args.query

----------------------------------------------------------------------------
(* The walks when a page fails or comes empty: C11, C12 *)

\* C11: in both walks, once the fetch of a page has failed the walk has failed: the call
\* ended throwing the error of that fetch, and it returns no value, the items of the
\* earlier pages included
C11_FailedPageFailsWalk ==
    ((LinkWalk \/ CountWalk) /\ rejected # <<>>) =>
        /\ pc = "thrown"
        /\ Len(rejected) = 1
        /\ result.kind = "thrown"
        /\ result.error \in {rejected[1], TranslateError(rejected[1])}
        /\ "value" \notin DOMAIN result

\* a count-heuristic walk failed on its second page, with the 50 items of the first in hand
C11_Witness ==
    /\ CountWalk /\ pc = "thrown"
    /\ Len(received) = 1 /\ Len(sent) = 2 /\ Len(out) = PageSize

\* a Link-header walk failed on its second page, with the items of the first in hand
C11_WitnessLink ==
    /\ LinkWalk /\ pc = "thrown"
    /\ Len(received) = 1 /\ Len(sent) = 2 /\ out # <<>>

\* the body of the k-th page a walk received
PageBody(k) == IF LinkWalk THEN received[k].body ELSE received[k]

\* a body with no item in it: the empty array, or a value that is no array
NoItems(body) == ~IsArray(body) \/ body.items = <<>>

RECURSIVE ItemsOfPages(_)
\* the items of the array bodies of the pages from..last a walk received, in page order
ItemsOfPages(from) ==
    IF from > Len(received) THEN <<>>
    ELSE (IF IsArray(PageBody(from)) THEN PageBody(from).items ELSE <<>>)
         \o ItemsOfPages(from + 1)

\* a walk ended, and its first page had succeeded with an empty or non-array body
EndedAfterEmptyFirstPage ==
    /\ LinkWalk \/ CountWalk
    /\ pc \in {"returned", "thrown"}
    /\ Len(received) >= 1
    /\ NoItems(PageBody(1))

\* C12 as stated: a walk whose first page succeeded with an empty or non-array body returns
\* the empty list and raises no error
C12_EmptyFirstPageEmptyList ==
    EndedAfterEmptyFirstPage => result = Returned(<<>>) /\ rejected = <<>>

\* C12 amended: the count-heuristic walk returns the empty list after one request; the
\* Link-header walk does so when that first response carries no rel="next" link, and
\* otherwise returns the items of the pages it went on to fetch, or fails with a later page
C12_EmptyFirstPageEndsOrGoesOn ==
    EndedAfterEmptyFirstPage =>
        IF CountWalk \/ RelNextTarget(LinkField(received[1])) = <<>>
        THEN /\ result = Returned(<<>>)
             /\ rejected = <<>>
             /\ Len(sent) = 1
        ELSE /\ pc = "returned" => result = Returned(ItemsOfPages(2))
             /\ pc = "thrown" => rejected # <<>> /\ Len(sent) = Len(received) + 1

\* a Link-header walk got a body that is no array, with no next link, and returned []
C12_Witness ==
    /\ LinkWalk /\ pc = "returned" /\ Len(received) = 1
    /\ received[1].body = NotAnArray
    /\ result = Returned(<<>>)

\* a count-heuristic walk got a body that is no array and returned []
C12_WitnessCount ==
    /\ CountWalk /\ pc = "returned" /\ received = <<NotAnArray>>
    /\ result = Returned(<<>>)

\* a Link-header walk got [] with a next link, went on, and returned the items of page 2
C12_WitnessWentOn ==
    /\ LinkWalk /\ pc = "returned" /\ Len(received) = 2
    /\ received[1].body = JArray(<<>>)
    /\ Len(result.value) = 2

----------------------------------------------------------------------------
(* getAccounts: C13 *)

\* the accounts the authorization endpoint listed, or none when the field is missing
ListedAccounts == IF "accounts" \in DOMAIN received[1] THEN received[1].accounts ELSE <<>>

\* the listed accounts of the two product codes, in the order of the list
Basecamp34Accounts == SelectSeq(ListedAccounts, LAMBDA a : a.product \in {"bc3", "bc4"})

\* C13: getAccounts returns exactly the listed accounts of product bc3 or bc4, in the order
\* of the list, each as {name, id as a string}; an account of another product never
\* appears, and a response without an accounts field gives the empty list
C13_OnlyBasecamp34InOrder ==
    (op = "getAccounts" /\ pc = "returned") =>
        /\ result.value =
              [i \in 1..Len(Basecamp34Accounts) |->
                  [name  |-> Basecamp34Accounts[i].name,
                   value |-> NumberToString(Basecamp34Accounts[i].id)]]
        /\ \A i \in 1..Len(result.value) :
              \E k \in 1..Len(ListedAccounts) :
                  /\ ListedAccounts[k].product \in {"bc3", "bc4"}
                  /\ NumberToString(ListedAccounts[k].id) = result.value[i].value
        /\ "accounts" \notin DOMAIN received[1] => result.value = <<>>

\* accounts of bc4, bcx and bc3 were listed, and the first and the third came back in order
C13_Witness ==
    /\ op = "getAccounts" /\ pc = "returned"
    /\ Len(ListedAccounts) = 3
    /\ ListedAccounts[1].product = "bc4"
    /\ ListedAccounts[2].product = "bcx"
    /\ ListedAccounts[3].product = "bc3"
    /\ result.value = <<[name |-> <<"A", "1">>, value |-> <<"9", "9", "1">>],
                        [name |-> <<"A", "3">>, value |-> <<"9", "9", "3">>]>>

\* the authorization had no accounts field, and the list came back empty
C13_WitnessNoField ==
    /\ op = "getAccounts" /\ pc = "returned"
    /\ "accounts" \notin DOMAIN received[1]
    /\ result.value = <<>>

----------------------------------------------------------------------------
(* execute when an item fails: C14 *)

Executing == op = "execute"

\* the output entries paired with input item i
EntriesOf(i) == { j \in 1..Len(out) : out[j].pairedItem.item = i }

\* the failures the catch block met that came from the host, in order
HostFailuresCaught == SelectSeq(found.caught, LAMBDA c : c.error.type = "NodeApiError")

\* C14: when the operation of item i fails and continue-on-fail is on, exactly one output
\* entry {error: message} paired with item i is appended and the loop goes on with item
\* i + 1; when it is off the run ends throwing that very error; and no failure of a request
\* goes unseen by one of the two
C14_FailureContinuesOrAborts ==
    Executing =>
        /\ \A k \in 1..Len(found.caught) :
              LET c == found.caught[k]
              IN  IF c.continueOnFail
                  THEN /\ Cardinality(EntriesOf(c.item)) = 1
                       /\ \A j \in EntriesOf(c.item) :
                             out[j] = [json       |-> [type |-> "object", error |-> MessageOf(c.error)],
                                       pairedItem |-> [item |-> c.item]]
                       /\ cursor.i > c.item
                       /\ k < Len(found.caught) => found.caught[k + 1].item > c.item
                       /\ (k = Len(found.caught) /\ cursor.i = c.item + 1)
                              => IF cursor.i < args.items
                                 THEN pc = "awaiting" /\ pending # NoRequest
                                 ELSE pc = "returned" /\ result = Returned(<<out>>)
                  ELSE /\ k = Len(found.caught)
                       /\ pc = "thrown"
                       /\ result = Thrown(c.error)
                       /\ cursor.i = c.item
                       /\ EntriesOf(c.item) = {}
        /\ Len(HostFailuresCaught) = Len(rejected)
        /\ \A k \in 1..Len(rejected) : HostFailuresCaught[k].error = TranslateError(rejected[k])
        /\ pc = "thrown" => found.caught # <<>>

\* with the switch on, the first of two items failed, its error entry was appended, and the run
\* went on to return the result of the second item after it
C14_Witness ==
    /\ Executing /\ pc = "returned" /\ args.items = 2
    /\ Len(found.caught) = 1
    /\ found.caught[1].item = 0 /\ found.caught[1].continueOnFail
    /\ Len(out) = 2
    /\ out[1].json = [type |-> "object", error |-> <<"NodeApiError", "ETIMEDOUT">>]
    /\ out[2].pairedItem.item = 1

\* with the switch off, the second of two items failed and the run threw the NodeApiError
C14_WitnessAbort ==
    /\ Executing /\ pc = "thrown" /\ args.items = 2
    /\ Len(found.caught) = 1
    /\ found.caught[1].item = 1 /\ ~found.caught[1].continueOnFail
    /\ result.error.type = "NodeApiError"

\* with the switch on, the second of two items failed and its error entry is paired with it
C14_WitnessSecond ==
    /\ Executing /\ pc = "returned" /\ args.items = 2
    /\ Len(found.caught) = 1
    /\ found.caught[1].item = 1 /\ found.caught[1].continueOnFail

----------------------------------------------------------------------------
(* The Link header of a page: C15, C18 *)

\* the names under which the responses of the call carry a Link header
LinkNames(res) ==
    IF "headers" \notin DOMAIN res THEN {} ELSE {"link", "Link", "LINK"} \cap DOMAIN res.headers

\* C15: whenever a response of the walk carries a Link header with a rel="next" target,
\* under any capitalisation of the header's name, the walk follows it with a request to
\* that target
C15_NextLinkFoundUnderAnyName ==
    LinkWalk =>
        \A k \in 1..Len(received) :
            \A name \in LinkNames(received[k]) :
                LET target == RelNextTarget(received[k].headers[name])
                IN  target # <<>> =>
                        /\ Len(sent) > k
                        /\ sent[k + 1].options.url = target

----------------------------------------------------------------------------
(* Which walk lists which endpoint: C16 *)

\* the URLs the option builders list with the Link-header walk
LinkListedUrls == { ApiUrl(ctx.accountId, LinkListing(b, ctx)) : b \in LinkBuilders }

\* the URLs execute lists with the count-heuristic walk
CountListedUrls == { ItemRequest(a, ctx).options.url : a \in { r \in ExecuteRuns : ListsAll(r) } }

\* C16: an endpoint is listed with one walk everywhere: no request of a count-heuristic
\* listing of execute goes to an endpoint that a builder lists with the Link-header walk,
\* and no builder's Link-header walk starts at an endpoint execute lists by count
C16_OneWalkPerEndpoint ==
    /\ (Executing /\ ListsAll(args)) =>
          \A k \in 1..Len(sent) : sent[k].options.url \notin LinkListedUrls
    /\ (op \in LinkBuilders /\ Len(sent) >= 1) =>
          sent[1].options.url \notin CountListedUrls

----------------------------------------------------------------------------
(* Where the account of a URL comes from: C17 *)

\* the requests of the call whose URL the call itself composed
BuiltUrls == IF LinkWalk THEN 1..(IF Len(sent) >= 1 THEN 1 ELSE 0) ELSE 1..Len(sent)

\* C17: the account in a URL the engine composes is the caller's argument and nothing else:
\* with an argument it is that argument, and without one (missing or empty) the URL is not
\* scoped by the node's accountId parameter
C17_AccountNeverInferred ==
    EngineCall =>
        \A k \in BuiltUrls :
            IF AccountSupplied
            THEN sent[k].options.url = ApiOrigin \o args.accountId \o args.endpoint
            ELSE ~StartsWith(sent[k].options.url, ApiOrigin \o ctx.accountId \o <<"/">>)

\* the walk went on after the k-th page
WentOnAfter(k) == Len(sent) > k

\* the k-th response carries a rel="next" link
HasNextLink(k) == RelNextTarget(LinkField(received[k])) # <<>>

\* C18: a page whose body is no array adds no item to the result, and after such a page the
\* walk goes on exactly when the response carries a rel="next" link; after any page,
\* whatever the number of its items, the link alone decides
C18_LinkAloneDecides ==
    LinkWalk =>
        /\ out = ItemsOfPages(1)
        /\ pc = "returned" => result.value = ItemsOfPages(1)
        /\ \A k \in 1..Len(received) :
              ~IsArray(received[k].body) => (WentOnAfter(k) <=> HasNextLink(k))
        /\ \A k \in 1..Len(received) :
              /\ HasNextLink(k) => WentOnAfter(k)
              /\ WentOnAfter(k) => RelNextTarget(LinkField(received[k])) = sent[k + 1].options.url

----------------------------------------------------------------------------
(* The builders of one entry: C19 *)

\* the fixed label of each single-entry builder
FallbackLabel ==
    [getMessageBoards  |-> <<"Message Board">>,
     getCampfires      |-> <<"Campfire">>,
     getSchedules      |-> <<"Schedule">>,
     getQuestionnaires |-> <<"Automatic Check-ins">>,
     getCardTables     |-> <<"Card Table">>,
     getTodosets       |-> <<"To-dos">>]

SingleEntryBuilder == op \in DOMAIN FallbackLabel

\* C19: a single-entry builder returns at most one option; when the dock has the entry the
\* option's value is the entry's id as a string and its name is the entry's title, or the
\* builder's fixed label when the title is missing or empty
C19_OneOptionTitleOrLabel ==
    (SingleEntryBuilder /\ pc = "returned") =>
        /\ Len(result.value) <= 1
        /\ HasDockEntry(FetchedProject, RequiredDock[op]) =>
              LET entry == DockEntryOf(FetchedProject, RequiredDock[op])
              IN  /\ Len(result.value) = 1
                  /\ result.value[1].value = NumberToString(entry.id)
                  /\ result.value[1].name =
                        IF "title" \in DOMAIN entry /\ entry.title # <<>>
                        THEN entry.title
                        ELSE FallbackLabel[op]

\* getCardTables met a kanban_board entry with an empty title and named it 'Card Table'
C19_Witness ==
    /\ op = "getCardTables" /\ pc = "returned"
    /\ HasDockEntry(FetchedProject, "kanban_board")
    /\ "title" \in DOMAIN DockEntryOf(FetchedProject, "kanban_board")
    /\ DockEntryOf(FetchedProject, "kanban_board").title = <<>>
    /\ result.value = <<[name |-> <<"Card Table">>, value |-> <<"5", "5">>]>>

\* getTodosets met a todoset entry with a title and named the option by it
C19_WitnessTitle ==
    /\ op = "getTodosets" /\ pc = "returned"
    /\ result.value = <<[name |-> <<"Docs">>, value |-> <<"7", "7">>]>>

\* getMessageBoards met a message_board entry without a title field
C19_WitnessNoTitle ==
    /\ op = "getMessageBoards" /\ pc = "returned"
    /\ HasDockEntry(FetchedProject, "message_board")
    /\ "title" \notin DOMAIN DockEntryOf(FetchedProject, "message_board")
    /\ result.value = <<[name |-> <<"Message Board">>, value |-> <<"5", "5">>]>>

----------------------------------------------------------------------------
(* No retry: C20 *)

\* C20: in basecampApiRequest and in both walks a request that failed was issued once,
\* it is the last request of the call, and the call has ended with the error: nothing of
\* the call can issue a request after the first failure
C20_FailedRequestNotRetried ==
    (EngineCall /\ rejected # <<>>) =>
        /\ Len(rejected) = 1
        /\ pc = "thrown"
        /\ pending = NoRequest
        /\ Len(sent) = Len(received) + 1
        /\ Cardinality({ k \in 1..Len(sent) : sent[k] = sent[Len(sent)] }) = 1
        /\ ~ENABLED Next

\* a count-heuristic walk failed on its third request, and three requests are all it issued
C20_Witness ==
    /\ CountWalk /\ pc = "thrown"
    /\ Len(rejected) = 1 /\ Len(received) = 2 /\ Len(sent) = 3

\* a call of basecampApiRequest failed after its one request
C20_WitnessSingle ==
    /\ op = "basecampApiRequest" /\ pc = "thrown"
    /\ Len(rejected) = 1 /\ Len(sent) = 1

----------------------------------------------------------------------------
(* The page counter of the count-heuristic walk: C21 *)

\* C21: the j-th request of the count-heuristic walk carries the caller's query parameters
\* and page = j, so that the pages asked for are 1, 2, 3, ... without gap or repeat, and a
\* request after the j-th was issued only after the j-th page came with at least 50 items
C21_PageCounterCountsRequests ==
    CountWalk =>
        /\ \A j \in 1..Len(sent) :
              /\ "qs" \in DOMAIN sent[j].options
              /\ sent[j].options.qs.page = j
              /\ \A key \in DOMAIN args.query \ {"page"} :
                    /\ key \in DOMAIN sent[j].options.qs
                    /\ sent[j].options.qs[key] = args.query[key]
              /\ DOMAIN sent[j].options.qs = DOMAIN args.query \cup {"page"}
        /\ \A j \in 1..(Len(sent) - 1) :
              /\ IsArray(received[j])
              /\ Len(received[j].items) >= PageSize
        /\ cursor.query.page = Len(sent)

\* a walk called with the query {status: archived} issued its third request with page = 3
C21_Witness ==
    /\ CountWalk /\ Len(sent) = 3
    /\ args.query = [status |-> <<"archived">>]
    /\ sent[3].options.qs = [status |-> <<"archived">>, page |-> 3]
    /\ Len(received[2].items) = PageSize + 1

----------------------------------------------------------------------------
(* Interleaved invocations: C22 *)

RECURSIVE WalkedAlone(_, _)
\* what a count-heuristic walk that runs alone collects from page p on: every page up to
\* and including the first that has fewer than 50 items
WalkedAlone(collection, p) ==
    IF p > Len(collection) THEN <<>>
    ELSE Items(p, collection[p])
         \o (IF collection[p] < PageSize THEN <<>> ELSE WalkedAlone(collection, p + 1))

\* what invocation i returns when it runs alone against its collection
AloneResult(i) ==
    IF op[i] = "basecampApiRequestAllItems"
    THEN WalkedAlone(server[i], 1)
    ELSE AllItems(server[i], 1)

\* invocation i asks for its own pages 1, 2, 3, ... and returns what it would return if
\* it ran alone
AsAlone(i) ==
    /\ op[i] = "basecampApiRequestAllItems" =>
          \A k \in 1..Len(sent[i]) : PageAsked(sent[i][k]) = k
    /\ pc[i] = "returned" => result[i] = Returned(AloneResult(i))

\* no other count-heuristic walk was given the query object of invocation i
OwnQueryObject(i) ==
    op[i] = "basecampApiRequestAllItems" =>
        \A j \in Invocations \ {i} :
            op[j] = "basecampApiRequestAllItems" => args[j].query # args[i].query

C22_WitnessReturned ==
    /\ op[1] = "basecampFetchAllPages" /\ op[2] = "basecampApiRequestAllItems"
    /\ \A i \in Invocations : pc[i] = "returned" /\ Len(result[i].value) = PageSize + 3

\* two count-heuristic walks that were given the same query object: the second skips a page
C22_WitnessShared ==
    /\ \A i \in Invocations : op[i] = "basecampApiRequestAllItems"
    /\ args[1].query = args[2].query
    /\ pc[2] = "returned" /\ result[2] # Returned(AloneResult(2))

----------------------------------------------------------------------------
(* The option builders only read: C23 *)

\* the builders of methods.loadOptions
OptionBuilders == ApiBuilders \cup LinkBuilders \cup {"getAccounts"}

\* C23: each of the 18 option builders issues only GET requests that carry no body
C23_BuildersOnlyGet ==
    /\ Cardinality(OptionBuilders) = 18
    /\ op \in OptionBuilders =>
          \A j \in 1..Len(sent) :
              /\ sent[j].options.method = "GET"
              /\ "body" \notin DOMAIN sent[j].options

\* a builder with a page loop of its own has sent the request of its third page
C23_Witness ==
    /\ op \in PageLoopBuilders /\ Len(sent) = 3
    /\ sent[3].options.method = "GET" /\ sent[3].options.qs = [page |-> 3]

\* getTodolists or getVaults has sent the project request and the request of a second page
C23_WitnessDock ==
    /\ op \in {"getTodolists", "getVaults"} /\ Len(sent) = 3
    /\ sent[1].options.method = "GET" /\ sent[3].options.qs = [page |-> 2]

----------------------------------------------------------------------------
(* Credentials in the body of the token refresh: C24 *)

\* a request asks the host to put the client credentials in the body of a token refresh
AsksRefreshOnBody(req) ==
    /\ "extra" \in DOMAIN req
    /\ "oauth2" \in DOMAIN req.extra
    /\ req.extra.oauth2.includeCredentialsOnRefreshOnBody

\* C24: every request handed to the host asks for the client credentials in the body of
\* the token refresh
C24_EveryRequestRefreshOnBody == \A j \in 1..Len(sent) : AsksRefreshOnBody(sent[j])

\* the same of every request but the accounts lookup
C24_RefreshOnBodyButAccounts ==
    op # "getAccounts" => \A j \in 1..Len(sent) : AsksRefreshOnBody(sent[j])

\* the accounts lookup is handed to the host without the extra argument
C24_WitnessAccounts ==
    op = "getAccounts" /\ Len(sent) = 1 /\ ~AsksRefreshOnBody(sent[1]) /\ pc = "returned"

----------------------------------------------------------------------------
(* The page loops of the builders against basecampApiRequestAllItems: C25 *)

\* a builder is in its page loop, or has left it
InPageLoop ==
    \/ op \in PageLoopBuilders
    \/ op \in {"getTodolists", "getVaults"} /\ stage = "page"

\* the requests before the loop: the project request of getTodolists and getVaults
BeforeLoop == IF op \in PageLoopBuilders THEN 0 ELSE 1

LoopSent == SubSeq(sent, BeforeLoop + 1, Len(sent))

LoopReceived == SubSeq(received, BeforeLoop + 1, Len(received))

\* the options the loop has collected: all of out but the root vault of getVaults
LoopOptions == IF op = "getVaults" THEN SubSeq(out, 2, Len(out)) ELSE out

\* the options the builder makes of items
OptionsOfItems(items) ==
    IF op \in PageLoopBuilders
    THEN PageLoopPush(op, <<>>, JArray(items))
    ELSE PushOptions(<<>>, JArray(items))

RECURSIVE Replayed(_, _, _)
\* basecampApiRequestAllItems run over the responses rs from the k-th on: the number of
\* requests it has issued, what it has collected, and whether it has returned
Replayed(rs, k, acc) ==
    IF k > Len(rs) THEN [requests |-> k, returnData |-> acc, returned |-> FALSE]
    ELSE LET returnData == PushAll(acc, rs[k])
         IN  IF LastPage(rs[k])
             THEN [requests |-> k, returnData |-> returnData, returned |-> TRUE]
             ELSE Replayed(rs, k + 1, returnData)

\* C25: the page loop of a builder issues the requests basecampApiRequestAllItems would
\* issue over the same responses, with the same page numbers, ends when it would end and
\* collects the options of the items it would collect, in the same order
C25_PageLoopAsAllItems ==
    InPageLoop =>
        LET walk == Replayed(LoopReceived, 1, <<>>)
        IN  /\ Len(LoopSent) = walk.requests
            /\ \A j \in 1..Len(LoopSent) :
                  /\ LoopSent[j].options =
                        [LoopSent[1].options EXCEPT !.qs = SetKey(EmptyObject, "page", j)]
                  /\ LoopSent[j].options.method = "GET"
                  /\ "body" \notin DOMAIN LoopSent[j].options
            /\ (pc = "returned") = walk.returned
            /\ LoopOptions = OptionsOfItems(walk.returnData)
            /\ pc = "returned" =>
                  result = Returned(SubSeq(out, 1, Len(out) - Len(LoopOptions)) \o LoopOptions)

\* a loop has fetched a page of 50 and a page of 3 and returned their 53 options
C25_Witness ==
    /\ op \in PageLoopBuilders /\ pc = "returned"
    /\ Len(LoopSent) = 2 /\ Len(LoopOptions) = PageSize + 3

\* the loop of getVaults has ended on a body that is no array after a page of 51
C25_WitnessNotAnArray ==
    /\ op = "getVaults" /\ pc = "returned" /\ Len(LoopSent) = 2
    /\ ~IsArray(LoopReceived[2]) /\ Len(LoopOptions) = PageSize + 1

\* the loop of getTodolists has ended on an empty page after two pages of 50
C25_WitnessEmpty ==
    /\ op = "getTodolists" /\ pc = "returned" /\ Len(LoopSent) = 3
    /\ IsArray(LoopReceived[3]) /\ Len(LoopReceived[3].items) = 0

----------------------------------------------------------------------------
(* The end of the count-heuristic walk: C26 *)

\* every page received so far is an array of 50 or more items
OnlyFullPages ==
    \A j \in 1..Len(received) : IsArray(received[j]) /\ Len(received[j].items) >= PageSize

\* while every page has 50 or more items the walk does not return: it asks for the next
WalkGoesOnWhileFull ==
    (CountWalk /\ OnlyFullPages) =>
        /\ pc # "returned"
        /\ pc = "awaiting" => Len(sent) = Len(received) + 1 /\ PageAsked(pending) = Len(sent)

\* the walk returns only on a page of fewer than 50 items or on a body that is no array
WalkReturnsOnLastPage ==
    (CountWalk /\ pc = "returned") => LastPage(received[Len(received)])

\* C26: when every request is completed the walk ends, and it returns unless a request
\* failed; it returns only on a page of fewer than 50 items or a body that is no array,
\* and however many pages of 50 or more items it has received it asks for one more
C26_WalkEndsUnlessAlwaysFull ==
    /\ [](WalkGoesOnWhileFull /\ WalkReturnsOnLastPage)
    /\ (CountWalk /\ pc = "awaiting") ~> (pc = "returned" \/ pc = "thrown")
    /\ (CountWalk /\ pc = "awaiting") ~> (pc = "returned" \/ rejected # <<>>)

\* the walk has returned after three pages of 50 or more items and a shorter one
C26_Witness ==
    /\ CountWalk /\ pc = "returned" /\ Len(sent) = Len(server) + 1
    /\ Len(sent) >= 4
    /\ \A j \in 1..(Len(received) - 1) : Len(received[j].items) >= PageSize

\* after three full pages the walk is asking for the fourth
C26_WitnessGoesOn ==
    CountWalk /\ pc = "awaiting" /\ Len(received) = 3 /\ OnlyFullPages /\ PageAsked(pending) = 4

----------------------------------------------------------------------------
(* Listing with a limit: C27 *)

\* execute runs getAll with returnAll false
ListsWithLimit == Executing /\ args.operation = "getAll" /\ ~args.returnAll

\* what the output holds for input item i, in order
JsonsOf(i) ==
    LET entries == SelectSeq(out, LAMBDA e : e.pairedItem.item = i)
    IN  [k \in 1..Len(entries) |-> entries[k].json]

Min(a, b) == IF a < b THEN a ELSE b

\* the first min(limit, size of the first page) items of the collection, in server order
FirstOfFirstPage ==
    LET size == IF server = <<>> THEN 0 ELSE server[1]
    IN  [k \in 1..Min(args.limit, size) |-> Item(1, k)]

\* C27: getAll with returnAll false issues one request for each item, a GET without a page
\* parameter, and the output of an item whose request brought the page holds the first
\* min(limit, size of that page) items in server order, and nothing of a later page
C27_OneRequestFirstItems ==
    ListsWithLimit =>
        /\ Len(sent) = cursor.i + (IF pc \in {"awaiting", "thrown"} THEN 1 ELSE 0)
        /\ \A j \in 1..Len(sent) :
              /\ sent[j].options.method = "GET"
              /\ "qs" \notin DOMAIN sent[j].options
              /\ sent[j].options.url = ApiUrl(ctx.accountId, ProjectsEndpoint)
        /\ \A i \in 0..(args.items - 1) :
              IF i < cursor.i
              THEN \/ JsonsOf(i) = FirstOfFirstPage
                   \/ Len(JsonsOf(i)) = 1 /\ "error" \in DOMAIN JsonsOf(i)[1]
              ELSE JsonsOf(i) = <<>>

\* with a limit above the page size and a second page on the server, both items of the
\* run have put the 50 projects of the first page into the output
C27_Witness ==
    /\ ListsWithLimit /\ pc = "returned" /\ args.items = 2
    /\ args.limit > PageSize /\ server = <<PageSize, 3>>
    /\ Len(sent) = 2 /\ Len(out) = 2 * PageSize
    /\ JsonsOf(1) = FirstOfFirstPage

\* a limit of 1 leaves one project of a page of 51
C27_WitnessLimitOne ==
    /\ ListsWithLimit /\ pc = "returned" /\ args.items = 1
    /\ args.limit = 1 /\ server = <<PageSize + 1>> /\ Len(out) = 1

----------------------------------------------------------------------------
(* The order of the items and of the output: C28 *)

\* the output entries are in the order of the items they are paired with, and every one
\* of them is paired with an item the loop has finished
OutputInItemOrder ==
    Executing =>
        /\ \A j \in 1..Len(out) :
              /\ out[j].pairedItem.item \in 0..(cursor.i - 1)
              /\ j < Len(out) => out[j].pairedItem.item <= out[j + 1].pairedItem.item
        /\ cursor.i \in 0..args.items
        /\ pc = "awaiting" => cursor.i < args.items
        /\ pc = "returned" => cursor.i = args.items

\* a step of a run goes from item i to item i or i + 1, keeps the output it has and puts
\* what it adds at the end, paired with item i
ItemStep ==
    Executing =>
        /\ cursor'.i \in {cursor.i, cursor.i + 1}
        /\ Len(out') >= Len(out)
        /\ SubSeq(out', 1, Len(out)) = out
        /\ \A j \in (Len(out) + 1)..Len(out') : out'[j].pairedItem.item = cursor.i
        /\ Len(out') > Len(out) => cursor'.i = cursor.i + 1

\* C28: execute takes the items in index order, one at a time, and every output entry made
\* for item i is paired with i and precedes every entry of a later item
C28_ItemsInOrder == []OutputInItemOrder /\ [][ItemStep]_vars

\* both of two items have listed three projects: three entries of item 0, then three of item 1
C28_Witness ==
    /\ Executing /\ pc = "returned" /\ args.items = 2 /\ Len(out) = 6
    /\ out[3].pairedItem.item = 0 /\ out[4].pairedItem.item = 1

\* an error entry of item 0 precedes the result of item 1
C28_WitnessError ==
    /\ Executing /\ pc = "returned" /\ args.items = 2 /\ Len(out) = 2
    /\ "error" \in DOMAIN out[1].json /\ out[1].pairedItem.item = 0
    /\ "error" \notin DOMAIN out[2].json /\ out[2].pairedItem.item = 1

----------------------------------------------------------------------------
(* A failure with continue-on-fail off: C29 *)

\* the run has ended on a failure that continue-on-fail did not take
Aborted == Executing /\ pc = "thrown"

\* C29: when item i fails with continue-on-fail off the run ends with the error and hands
\* no output over, not even the results it has collected for the items before i, while
\* the requests of the items up to i have been issued and nothing was sent to undo them;
\* and a run that returns its output has met no such failure
C29_AbortReturnsNothing ==
    /\ Aborted =>
          LET last == found.caught[Len(found.caught)]
          IN  /\ found.caught # <<>>
              /\ ~last.continueOnFail /\ last.item = cursor.i
              /\ result = Thrown(last.error)
              /\ \A j \in 1..Len(out) : out[j].pairedItem.item < cursor.i
              /\ Len(sent) >= cursor.i + 1
              /\ ~ListsAll(args) =>
                    /\ Len(sent) = cursor.i + 1
                    /\ \A j \in 1..Len(sent) : sent[j] = ItemRequest(args, ctx)
    /\ (Executing /\ pc = "returned") =>
          /\ result = Returned(<<out>>)
          /\ \A k \in 1..Len(found.caught) : found.caught[k].continueOnFail

\* the second of two creates failed with continue-on-fail off: both POSTs were sent, the
\* project made for the first item is in the collected output, the run hands over the error
C29_Witness ==
    /\ Aborted /\ args.operation = "create" /\ cursor.i = 1
    /\ Len(sent) = 2 /\ sent[1].options.method = "POST" /\ sent[2].options.method = "POST"
    /\ Len(out) = 1 /\ out[1].pairedItem.item = 0
    /\ result.kind = "thrown"

----------------------------------------------------------------------------
(* What the count-heuristic walk writes: C30 *)

\* the body a request carries: none when the caller's body has no keys
BodySent(req) == IF "body" \in DOMAIN req.options THEN req.options.body ELSE EmptyObject

\* C30: every request of the walk carries the caller's body as it was given, and the
\* caller's query object holds, from the first request on and after the walk has ended,
\* the number of the last page requested under `page` and every other key as it was
\* given; a query that came with a page starts at page 1 all the same
C30_WalkWritesOnlyQueryPage ==
    CountWalk =>
        /\ \A j \in 1..Len(sent) : BodySent(sent[j]) = args.body
        /\ DOMAIN cursor.query = DOMAIN args.query \cup {"page"}
        /\ \A key \in DOMAIN args.query \ {"page"} : cursor.query[key] = args.query[key]
        /\ cursor.query.page = Len(sent)
        /\ cursor.query.page = PageAsked(sent[Len(sent)])
        /\ PageAsked(sent[1]) = 1
        /\ pc \in {"returned", "thrown"} => cursor.query = sent[Len(sent)].options.qs

\* a walk given a body and a query with a status has returned after three pages: the
\* query holds page 3 and the status
C30_Witness ==
    /\ CountWalk /\ pc = "returned" /\ Len(sent) = 3
    /\ args.body # EmptyObject /\ BodySent(sent[3]) = args.body
    /\ args.query = [status |-> <<"archived">>]
    /\ cursor.query = [status |-> <<"archived">>, page |-> 3]

\* a walk given a query that held page 7 has asked for pages 1 and 2 and left page 2 in it
C30_WitnessReused ==
    /\ CountWalk /\ pc = "returned" /\ Len(sent) = 2
    /\ args.query = [page |-> 7]
    /\ PageAsked(sent[1]) = 1 /\ cursor.query = [page |-> 2]

====
